---- MODULE Spec2Model ----
(***************************************************************************)
(* State-machine model of the GC-MOX acquisition programs:                 *)
(*   forced_2_fft        (src/unnamed/part_002, first program)             *)
(*   forced_2_gas_ratio  (src/unnamed/part_002, second program)            *)
(*   hysteresis loop     (src/unnamed/part_001)                            *)
(*   forced_sweep_2      (src/Time_Constant/forced_mode/forced_mode_fft.c, *)
(*                        second program)                                  *)
(*   forced_2_gas        (src/GC_MOX_FFT/forced_mode/forced_2_gas.c)       *)
(*   stepped-profile loop (src/Time_Constant/forced_mode/forced_mode_fft.c,*)
(*                        first program)                                   *)
(* and of the bus interface they share (src/Time_Constant/common).         *)
(* Every program is a single-threaded loop; each gets its own              *)
(* specification (SpecFft, SpecRatio, SpecHyst, SpecSweep, SpecRaw,        *)
(* SpecProfile) over the shared clock `now`, the shared output sink `out`  *)
(* and its own locals.  SpecSteps follows the tick of forced_2_fft one bus *)
(* access at a time; SpecSweepFair and SpecProfileFair are the sweep and   *)
(* the stepped-profile loop under the assumption that the program keeps    *)
(* running; SpecWindows is forced_2_fft or the stepped-profile loop, the   *)
(* two programs with a single-shot window.  The bus interface (SpecIntf)   *)
(* and the pure                                                            *)
(* functions top3_peaks (SpecPeaks), print_feature_vector (SpecFeat) and   *)
(* the two DFT routines (SpecDft) are also explored on their own, over     *)
(* bounded sets of inputs.                                                 *)
(*                                                                         *)
(* Time is in milliseconds, as returned by monotonic_ms().  The timing     *)
(* macros of the sources (periods, sampling intervals, cycle counts) are   *)
(* instantiated with small values so that several periods fit in the       *)
(* explored runs; the definitions say which macro they stand for.          *)
(* Doubles are modelled as exact numbers: sums of resistance values as     *)
(* integers, a quotient of means as an unreduced fraction.                 *)
(***************************************************************************)
EXTENDS Integers, Sequences, FiniteSets, TLC

VARIABLES
    now,        \* the monotonic clock, ms (what monotonic_ms() returns)
    out,        \* stdout: the sequence of records printed so far
    pc,         \* position of the running program
    t0,         \* run origin
    next,       \* scheduler deadline
    ticks,      \* history: number of deadlines computed since the run started
    run_start,  \* history: the clock reading the first deadline was derived from
    heater,     \* heater set-point of the current tick
    ok1, ok2,   \* outcome of sample_once() on 0x76 / 0x77 in the current tick
    g1, g2,     \* resistance read in the current tick
    rslt,       \* last driver result (single-sensor programs)
    \* ---- forced_2_gas_ratio
    rel, cycle, last_cycle,
    low1, high1, low2, high2, lowc, highc,
    n_low, n_high,   \* history: per channel, samples accepted since the last reset
    acc_cycles,      \* history: periods whose samples are in the accumulators
    \* ---- hysteresis loop
    t_start, i, low, high, y_cycle, cycle_id,
    fft_buf, fft_pos, fft_filled,
    pushed,          \* history: every value pushed into fft_buf, in push order
    cyc_samples,     \* history: the readings accepted since the cycle started
    \* ---- forced_sweep_2
    seg, seg_start,
    \* ---- forced_2_fft
    x1, x2, idx, window_id,
    last_stored,     \* history: per channel, the value stored at the previous tick
    \* ---- top3_peaks
    mags, bins, peaks,
    \* ---- print_feature_vector
    gas_cycle, profile_len,
    \* ---- bus interface (common.c) and its callers' handles
    shared_fd, intf_ptr, heap, ctx_of, opens, closes, freed, deinits,
    \* ---- forced_2_gas
    sample,
    init_failed,     \* history: an initialisation step of the run has failed
    \* ---- the two spectrum routines on their own
    dft_x, dft_N,
    \* ---- stepped-profile loop (forced_mode_fft.c, first program)
    sample_count, cycle_index,
    attempts,        \* history: measurements issued for the current sample_count
    \* ---- one dual-channel tick, bus transaction by bus transaction
    stage,           \* per channel: how far its sample_once() call has come
    armed,           \* per channel: the set-point written to the sensor
    evals            \* history: set-point evaluations in the tick

clockVars == <<now, out, pc, t0, next, ticks, run_start>>
tickVars  == <<heater, ok1, ok2, g1, g2, rslt>>
ratioVars == <<rel, cycle, last_cycle, low1, high1, low2, high2, lowc, highc,
               n_low, n_high, acc_cycles>>
hystVars  == <<t_start, i, low, high, y_cycle, cycle_id, fft_buf, fft_pos,
               fft_filled, pushed, cyc_samples>>
sweepVars == <<seg, seg_start>>
fftVars   == <<x1, x2, idx, window_id, last_stored>>
peakVars  == <<mags, bins, peaks>>
featVars  == <<gas_cycle, profile_len>>
intfVars  == <<shared_fd, intf_ptr, heap, ctx_of, opens, closes, freed, deinits>>
rawVars   == <<sample>>
dftVars   == <<dft_x, dft_N>>
profVars  == <<sample_count, cycle_index, attempts>>
busVars   == <<stage, armed, evals>>
extVars   == <<dftVars, profVars, busVars>>
vars == <<clockVars, tickVars, ratioVars, hystVars, sweepVars, fftVars,
          peakVars, featVars, intfVars, rawVars, init_failed, extVars>>

\* What each program leaves alone: the state of the other programs.
ratioRest == <<hystVars, sweepVars, fftVars, peakVars, featVars, intfVars,
               rawVars, extVars, init_failed>>
hystRest  == <<ratioVars, sweepVars, fftVars, peakVars, featVars, intfVars,
               rawVars, extVars, init_failed>>
sweepRest == <<ratioVars, hystVars, fftVars, peakVars, featVars, intfVars,
               rawVars, extVars, init_failed>>

(***************************************************************************)
(* Environment: clock, driver outcomes                                     *)
(***************************************************************************)
ADDR1 == 118    \* 0x76
ADDR2 == 119    \* 0x77

\* Clock readings at which a run may start.
StartTimes == {0, 7}

\* Resistance values the driver may report.
GasValues == {100, 200}

\* sample_once() blocks for meas_dur + heatr_dur, a duration the driver
\* supplies: between 0 and MaxSampleMs ms pass on the clock while one tick
\* samples its sensor(s).
MaxSampleMs == 1

\* nanosleep() may return late: up to MaxOversleepMs after the target.
MaxOversleepMs == 1

Max(a, b) == IF a >= b THEN a ELSE b

\* A sleep that may return one millisecond before the target.
SleepUntilMsEarly(cur, target) ==
    IF cur >= target THEN {cur} ELSE (target - 1) .. (target + MaxOversleepMs)

\* sleep_until_ms(target), entered when the clock reads cur: the clock
\* readings at which it can return.  It returns at once when cur >= target,
\* otherwise when the clock has reached target (nanosleep may oversleep).
SleepUntilMs(cur, target) ==
    IF cur >= target THEN {cur} ELSE target .. (target + MaxOversleepMs)

Channels == {1, 2}

\* Driver results: BME69X_OK, and a failure (an error code of the driver, or
\* BME69X_E_COM_FAIL for a read that returned zero valid fields).
OK   == "BME69X_OK"
FAIL == "BME69X_E_COM_FAIL"

\* The records an action appends to stdout.
Printed == SubSeq(out', Len(out) + 1, Len(out'))

Range(f) == {f[x] : x \in DOMAIN f}

\* What one sample_once() call can yield: a failure (driver error or zero
\* valid fields), which leaves the caller's value at its initial 0, or a
\* resistance.
SampleOutcomes ==
    {[ok |-> FALSE, gas |-> 0]} \cup {[ok |-> TRUE, gas |-> v] : v \in GasValues}

(***************************************************************************)
(* Exact twiddle factors for the two DFT routines                          *)
(***************************************************************************)
\* The angle 2*pi*k*n/N in twelfths of a turn.  The twiddle factors are exact
\* only when that is a whole number of twelfths other than an odd one, which
\* is the case for every k, n when N is 1, 2, 3, 4 or 6; no value is defined
\* for other angles.
Twelfths(k, n, N) ==
    IF (12 * k * n) % N = 0 THEN ((12 * k * n) \div N) % 12 ELSE -1

\* 2 * cos(2*pi*u/12).
Cos2 == [u \in {0, 2, 3, 4, 6, 8, 9, 10} |->
            CASE u = 0 -> 2
              [] u \in {2, 10} -> 1
              [] u \in {3, 9} -> 0
              [] u \in {4, 8} -> -1
              [] u = 6 -> -2]

\* sin(-2*pi*u/12) = SinR3[u] * sqrt(3)/2 + SinInt[u].
SinR3 == [u \in {0, 2, 3, 4, 6, 8, 9, 10} |->
            CASE u \in {2, 4} -> -1
              [] u \in {8, 10} -> 1
              [] OTHER -> 0]

SinInt == [u \in {0, 2, 3, 4, 6, 8, 9, 10} |->
            CASE u = 3 -> -1
              [] u = 9 -> 1
              [] OTHER -> 0]

RECURSIVE SumTo(_, _)
\* f[0] + ... + f[n - 1]
SumTo(f, n) == IF n = 0 THEN 0 ELSE SumTo(f, n - 1) + f[n - 1]

(***************************************************************************)
(* Defaults of the state a program does not use                            *)
(***************************************************************************)
TickIdle ==
    /\ heater = 0 /\ ok1 = FALSE /\ ok2 = FALSE /\ g1 = 0 /\ g2 = 0
    /\ rslt = OK

RatioIdle ==
    /\ rel = 0 /\ cycle = 0 /\ last_cycle = 0
    /\ low1 = 0 /\ high1 = 0 /\ low2 = 0 /\ high2 = 0
    /\ lowc = 0 /\ highc = 0
    /\ n_low = [c \in Channels |-> 0]
    /\ n_high = [c \in Channels |-> 0]
    /\ acc_cycles = {}

HystIdle ==
    /\ t_start = 0 /\ i = 0
    /\ low = <<>> /\ high = <<>> /\ y_cycle = <<>>
    /\ cycle_id = 0
    /\ fft_buf = <<>> /\ fft_pos = 0 /\ fft_filled = FALSE
    /\ pushed = <<>>
    /\ cyc_samples = <<>>

SweepIdle ==
    /\ seg = 0 /\ seg_start = 0

FftIdle ==
    /\ x1 = <<>> /\ x2 = <<>> /\ idx = 0 /\ window_id = 0
    /\ last_stored = <<>>

PeakIdle ==
    /\ mags = <<>> /\ bins = 0 /\ peaks = <<>>

FeatIdle ==
    /\ gas_cycle = <<>> /\ profile_len = 0

IntfIdle ==
    /\ shared_fd = -1 /\ intf_ptr = <<>> /\ heap = {} /\ ctx_of = <<>>
    /\ opens = 0 /\ closes = 0 /\ freed = <<>> /\ deinits = <<>>

RawIdle ==
    /\ sample = 0

DftIdle ==
    /\ dft_x = <<>> /\ dft_N = 0

ProfIdle ==
    /\ sample_count = 0 /\ cycle_index = 0 /\ attempts = 0

BusIdle ==
    /\ stage = <<>> /\ armed = <<>> /\ evals = 0

\* The state of every program but the named ones is at its default.
IdleExcept(keep) ==
    /\ ("ratio" \in keep \/ RatioIdle)
    /\ ("hyst" \in keep \/ HystIdle)
    /\ ("sweep" \in keep \/ SweepIdle)
    /\ ("fft" \in keep \/ FftIdle)
    /\ ("peak" \in keep \/ PeakIdle)
    /\ ("feat" \in keep \/ FeatIdle)
    /\ ("intf" \in keep \/ IntfIdle)
    /\ ("raw" \in keep \/ RawIdle)
    /\ ("dft" \in keep \/ DftIdle)
    /\ ("prof" \in keep \/ ProfIdle)
    /\ ("bus" \in keep \/ BusIdle)

(***************************************************************************)
(* forced_2_gas_ratio (src/unnamed/part_002, lines 318-483)                *)
(***************************************************************************)
Ratio_T_LOW_C  == 150
Ratio_T_HIGH_C == 320

\* SQ_PERIOD_MS, HALF_MS, TS_MS of the source (200, 100, 25), scaled.
SQ_PERIOD_MS  == 4
Ratio_HALF_MS == 2
Ratio_TS_MS   == 1

\* The loop is explored while fewer than RatioMaxTicks ticks have been issued.
RatioMaxTicks == 6

\* (a / ac) / (b / bc) as the fraction (a * bc) / (ac * b); den = 0 stands for
\* a division by zero (inf or NaN in the double arithmetic of the source).
Ratio(a, ac, b, bc) == [num |-> a * bc, den |-> ac * b]

\* Operands of the quotients of lines 469-470: r1 is (high1/highc)/(low1/lowc),
\* r2 is (high2/highc)/(low2/lowc).
LowSum(c)  == IF c = 1 THEN low1 ELSE low2

HighSum(c) == IF c = 1 THEN high1 ELSE high2

LowDivisor(c)  == lowc

HighDivisor(c) == highc

RatioValue(c) == Ratio(HighSum(c), HighDivisor(c), LowSum(c), LowDivisor(c))

Addr(c) == IF c = 1 THEN ADDR1 ELSE ADDR2

RatioRecord(t, addr, value) ==
    [type |-> "RATIO", t |-> t, addr |-> addr, value |-> value]

\* main() is entered (lines 407-419): nothing has been initialised or printed.
InitRatio ==
    /\ now \in StartTimes
    /\ t0 = 0 /\ next = 0 /\ run_start = 0 /\ ticks = 0
    /\ out = <<>>
    /\ pc = "r_init"
    /\ TickIdle /\ IdleExcept({})
    /\ init_failed = FALSE

\* What init_sensor() can return: BME69X_OK, or the error of the step that
\* failed (interface init, bme69x_init or bme69x_set_conf).
InitOutcomes == {OK, FAIL}

\* Lines 421-436: init_sensor() is called for 0x76 and for 0x77 and both
\* return values are discarded; the origin and the first deadline are the
\* same clock reading; the CSV header is printed.
RatioSetup ==
    /\ pc = "r_init"
    /\ \E r1 \in InitOutcomes, r2 \in InitOutcomes :
          init_failed' = (r1 # OK \/ r2 # OK)
    /\ t0' = now /\ next' = now /\ run_start' = now
    /\ out' = << [type |-> "HEADER"] >>
    /\ pc' = "r_sample"
    /\ UNCHANGED <<now, ticks, tickVars, ratioVars>>
    /\ UNCHANGED <<hystVars, sweepVars, fftVars, peakVars, featVars, intfVars,
                   rawVars, extVars>>

\* Loop body, lines 440-461: read the clock, derive cycle, phase and
\* set-point, sample 0x76 then 0x77, accumulate into the phase's sums.
RatioSample ==
    /\ pc = "r_sample"
    /\ ticks < RatioMaxTicks
    /\ \E d \in 0..MaxSampleMs,
          s1 \in SampleOutcomes, s2 \in SampleOutcomes :
        LET r  == now - t0
            cy == r \div SQ_PERIOD_MS
            ph == r % SQ_PERIOD_MS
            h  == IF ph < Ratio_HALF_MS THEN Ratio_T_LOW_C ELSE Ratio_T_HIGH_C
            o1 == s1.ok
            o2 == s2.ok
            a1 == s1.gas
            a2 == s2.gas
        IN  /\ rel' = r /\ cycle' = cy /\ heater' = h
            /\ ok1' = o1 /\ ok2' = o2
            /\ g1' = a1 /\ g2' = a2
            /\ now' = now + d
            /\ IF h = Ratio_T_LOW_C
               THEN /\ low1' = (IF o1 THEN low1 + a1 ELSE low1)
                    /\ lowc' = (IF o1 THEN lowc + 1 ELSE lowc)
                    /\ low2' = (IF o2 THEN low2 + a2 ELSE low2)
                    /\ n_low' = [c \in Channels |->
                          IF (c = 1 /\ o1) \/ (c = 2 /\ o2)
                          THEN n_low[c] + 1 ELSE n_low[c]]
                    /\ UNCHANGED <<high1, highc, high2, n_high>>
               ELSE /\ high1' = (IF o1 THEN high1 + a1 ELSE high1)
                    /\ highc' = (IF o1 THEN highc + 1 ELSE highc)
                    /\ high2' = (IF o2 THEN high2 + a2 ELSE high2)
                    /\ n_high' = [c \in Channels |->
                          IF (c = 1 /\ o1) \/ (c = 2 /\ o2)
                          THEN n_high[c] + 1 ELSE n_high[c]]
                    /\ UNCHANGED <<low1, lowc, low2, n_low>>
            /\ acc_cycles' = (IF o1 \/ o2 THEN acc_cycles \cup {cy}
                              ELSE acc_cycles)
    /\ pc' = "r_rollover"
    /\ UNCHANGED <<out, t0, next, ticks, run_start, rslt, last_cycle>>
    /\ UNCHANGED ratioRest

\* Lines 463-478: on a change of the cycle number, print both ratios when
\* lowc and highc are non-zero, then clear the accumulators.
RatioRollover ==
    /\ pc = "r_rollover"
    /\ IF cycle # last_cycle
       THEN /\ last_cycle' = cycle
            /\ out' = (IF lowc # 0 /\ highc # 0
                       THEN out \o
                            << RatioRecord(rel, Addr(1), RatioValue(1)),
                               RatioRecord(rel, Addr(2), RatioValue(2)) >>
                       ELSE out)
            /\ low1' = 0 /\ high1' = 0 /\ low2' = 0 /\ high2' = 0
            /\ lowc' = 0 /\ highc' = 0
            /\ n_low' = [c \in Channels |-> 0]
            /\ n_high' = [c \in Channels |-> 0]
            /\ acc_cycles' = {}
       ELSE UNCHANGED <<last_cycle, out, low1, high1, low2, high2, lowc, highc,
                        n_low, n_high, acc_cycles>>
    /\ pc' = "r_sleep"
    /\ UNCHANGED <<now, t0, next, ticks, run_start, tickVars, rel, cycle>>
    /\ UNCHANGED ratioRest

\* Lines 480-481: next += TS_MS; sleep_until_ms(next).  The locals of the loop
\* body go out of scope.
RatioSleep ==
    /\ pc = "r_sleep"
    /\ next' = next + Ratio_TS_MS
    /\ ticks' = ticks + 1
    /\ now' \in SleepUntilMs(now, next + Ratio_TS_MS)
    /\ heater' = 0 /\ ok1' = FALSE /\ ok2' = FALSE /\ g1' = 0 /\ g2' = 0
    /\ rel' = 0 /\ cycle' = 0
    /\ pc' = "r_sample"
    /\ UNCHANGED <<out, t0, run_start, rslt, last_cycle,
                   low1, high1, low2, high2, lowc, highc,
                   n_low, n_high, acc_cycles>>
    /\ UNCHANGED ratioRest

NextRatio == RatioSetup \/ RatioSample \/ RatioRollover \/ RatioSleep

SpecRatio == InitRatio /\ [][NextRatio]_vars

(***************************************************************************)
(* Hysteresis loop with rolling FFT window (src/unnamed/part_001)          *)
(***************************************************************************)

Hyst_T_LOW_C  == 200
Hyst_T_HIGH_C == 320

\* HALF_MS, SUB_MS, FFT_CYCLES, FFT_STRIDE, WARMUP_CYCLES of the source (1000,
\* 50, 16, 10, 2), scaled; S and FFT_N are derived from them as in the source.
\* As in the source, the first multiple of FFT_STRIDE above WARMUP_CYCLES
\* comes before the rolling window has been filled (FFT_CYCLES cycles).
Hyst_HALF_MS == 2
SUB_MS       == 1
S            == Hyst_HALF_MS \div SUB_MS
FFT_CYCLES   == 3
Hyst_FFT_N   == S * FFT_CYCLES
FFT_STRIDE   == 2
Hyst_WARMUP_CYCLES == 1

\* The loop is explored for HystMaxCycles cycles.
HystMaxCycles == 4

Zeros(n) == [j \in 0..(n - 1) |-> 0]

\* The buffer copied from slot 0 on, the write cursor ignored.
SnapshotFromZero == [j \in 0..(Hyst_FFT_N - 1) |-> fft_buf[j]]

\* x[i] = fft_buf[(fft_pos + i) % FFT_N]: oldest to newest (lines 217-219).
Snapshot ==
    [j \in 0..(Hyst_FFT_N - 1) |-> fft_buf[(fft_pos + j) % Hyst_FFT_N]]

\* main() up to the loop (lines 116-161), initialisation succeeding: the
\* buffers are zero-filled, nothing has been printed on stdout.
InitHyst ==
    /\ now \in StartTimes
    /\ t0 = 0 /\ next = now /\ run_start = now /\ ticks = 0
    /\ out = <<>>
    /\ pc = "h_start"
    /\ TickIdle /\ IdleExcept({"hyst"})
    /\ init_failed = FALSE
    /\ t_start = now /\ i = 0
    /\ low = Zeros(S) /\ high = Zeros(S) /\ y_cycle = Zeros(S)
    /\ cycle_id = 0
    /\ fft_buf = Zeros(Hyst_FFT_N) /\ fft_pos = 0 /\ fft_filled = FALSE
    /\ pushed = <<>>
    /\ cyc_samples = <<>>

\* Lines 165-169: a cycle starts; the deadline is taken from the clock.
HystCycleStart ==
    /\ pc = "h_start"
    /\ cycle_id < HystMaxCycles
    /\ t_start' = now
    /\ next' = now
    /\ heater' = Hyst_T_LOW_C
    /\ i' = 0
    /\ cyc_samples' = <<>>
    /\ pc' = "h_low"
    /\ UNCHANGED <<now, out, t0, ticks, run_start, ok1, ok2, g1, g2, rslt>>
    /\ UNCHANGED <<low, high, y_cycle, cycle_id, fft_buf, fft_pos, fft_filled,
                   pushed>>
    /\ UNCHANGED hystRest

\* One iteration of a step loop (lines 170-179 for "h_low", 183-192 for
\* "h_high"): sample_gas_once(), goto out on failure, else store the value,
\* advance the deadline and sleep until it.
HystSample(at, after) ==
    /\ pc = at
    /\ \E d \in 0..MaxSampleMs, s \in SampleOutcomes :
        LET r == IF s.ok THEN OK ELSE FAIL
            v == s.gas
        IN
        /\ rslt' = r
        /\ IF r # OK
           THEN /\ now' = now + d
                /\ pc' = "h_out"
                /\ UNCHANGED <<next, ticks, i, low, high, heater, cyc_samples>>
           ELSE /\ IF at = "h_low"
                   THEN low' = [low EXCEPT ![i] = v] /\ high' = high
                   ELSE high' = [high EXCEPT ![i] = v] /\ low' = low
                /\ cyc_samples' = Append(cyc_samples, v)
                /\ next' = next + SUB_MS
                /\ ticks' = ticks + 1
                /\ now' \in SleepUntilMs(now + d, next + SUB_MS)
                /\ IF i + 1 < S
                   THEN i' = i + 1 /\ pc' = at /\ heater' = heater
                   ELSE /\ i' = 0 /\ pc' = after
                        /\ heater' = Hyst_T_HIGH_C
    /\ UNCHANGED <<out, t0, run_start, ok1, ok2, g1, g2>>
    /\ UNCHANGED <<t_start, y_cycle, cycle_id, fft_buf, fft_pos, fft_filled,
                   pushed>>
    /\ UNCHANGED hystRest

HystSampleLow == HystSample("h_low", "h_high")

HystSampleHigh == HystSample("h_high", "h_emit")

\* The differences taken the other way round, low[i] - high[i].
CycleDiffLowMinusHigh(lo, hi) == [j \in 0..(S - 1) |-> lo[j] - hi[j]]

\* y_cycle[i] = high[i] - low[i] for i in 0..S-1 (lines 198-202).
CycleDiff(lo, hi) == [j \in 0..(S - 1) |-> hi[j] - lo[j]]

FeatureCycleRecord(id, y) == [type |-> "FEATURE_CYCLE", cycle_id |-> id, y |-> y]

\* Lines 194-204: the cycle is complete; y = high - low is printed.
HystEmit ==
    /\ pc = "h_emit"
    /\ cycle_id' = cycle_id + 1
    /\ y_cycle' = CycleDiff(low, high)
    /\ out' = Append(out, FeatureCycleRecord(cycle_id + 1,
                                             CycleDiff(low, high)))
    /\ i' = 0
    /\ pc' = "h_push"
    /\ UNCHANGED <<now, t0, next, ticks, run_start, tickVars>>
    /\ UNCHANGED <<t_start, low, high, fft_buf, fft_pos, fft_filled, pushed,
                   cyc_samples>>
    /\ UNCHANGED hystRest

\* One iteration of the append loop, lines 207-212.
HystPush ==
    /\ pc = "h_push"
    /\ fft_buf' = [fft_buf EXCEPT ![fft_pos] = y_cycle[i]]
    /\ fft_pos' = (fft_pos + 1) % Hyst_FFT_N
    /\ fft_filled' = (fft_filled \/ ((fft_pos + 1) % Hyst_FFT_N = 0))
    /\ pushed' = Append(pushed, y_cycle[i])
    /\ IF i + 1 < S
       THEN i' = i + 1 /\ pc' = "h_push"
       ELSE i' = 0 /\ pc' = "h_fft"
    /\ UNCHANGED <<now, out, t0, next, ticks, run_start, tickVars>>
    /\ UNCHANGED <<t_start, low, high, y_cycle, cycle_id, cyc_samples>>
    /\ UNCHANGED hystRest

\* Fs = 1000.0 / SUB_MS (line 134), as a fraction.
Hyst_Fs == [num |-> 1000, den |-> SUB_MS]

\* dft_print(cycle_id, x, N, Fs), lines 86-112: the line "FFT,cycle_id,Fs"
\* followed by one magnitude for each k = 1..N/2, the mean of x removed.
\* The magnitudes are carried as in dft_mags_dc_removed below: the square of
\* the magnitude times 4 * N^4.
dft_print(id, x, N, Fs) ==
    LET sum == SumTo(x, N)
        xn  == [n \in 0..(N - 1) |-> N * x[n] - sum]
        Dot(tab, k) ==
            SumTo([n \in 0..(N - 1) |-> xn[n] * tab[Twelfths(k, n, N)]], N)
        MagSq(re2, a, b) == re2 * re2 + 3 * a * a + 4 * b * b
    IN  [type |-> "FFT", cycle_id |-> id, fs |-> Fs,
         mags |-> [k \in 1..(N \div 2) |->
                      MagSq(Dot(Cos2, k), Dot(SinR3, k), Dot(SinInt, k))]]

\* The gate with the fft_filled test left out.
FftGateIgnoresFill(id, filled) ==
    /\ id > Hyst_WARMUP_CYCLES
    /\ id % FFT_STRIDE = 0

\* The condition of line 215.
FftGate(id, filled) ==
    /\ id > Hyst_WARMUP_CYCLES
    /\ filled
    /\ id % FFT_STRIDE = 0

\* Lines 215-222: the spectrum of the snapshot is printed for the cycles that
\* pass the gate; the loop goes round.
HystFft ==
    /\ pc = "h_fft"
    /\ out' = (IF FftGate(cycle_id, fft_filled)
               THEN Append(out, dft_print(cycle_id, Snapshot, Hyst_FFT_N,
                                          Hyst_Fs))
               ELSE out)
    /\ pc' = "h_start"
    /\ UNCHANGED <<now, t0, next, ticks, run_start, tickVars>>
    /\ UNCHANGED <<hystVars, hystRest>>

\* Lines 225-227: out: the interface is released and main returns rslt.
HystOut ==
    /\ pc = "h_out"
    /\ pc' = "done"
    /\ UNCHANGED <<now, out, t0, next, ticks, run_start, tickVars>>
    /\ UNCHANGED <<hystVars, hystRest>>

NextHyst ==
    \/ HystCycleStart
    \/ HystSampleLow
    \/ HystSampleHigh
    \/ HystEmit
    \/ HystPush
    \/ HystFft
    \/ HystOut

SpecHyst == InitHyst /\ [][NextHyst]_vars

(***************************************************************************)
(* forced_sweep_2 (src/Time_Constant/forced_mode/forced_mode_fft.c,        *)
(* lines 201-384)                                                          *)
(***************************************************************************)
Sweep_T_LOW_C  == 250
Sweep_T_HIGH_C == 320

\* TS_MS, CYCLES_PER_FREQ, WARMUP_CYCLES of the source (10, 15, 3), scaled.
Sweep_TS_MS   == 4
CYCLES_PER_FREQ     == 1
Sweep_WARMUP_CYCLES == 1

\* The sweep list; the source's has ten half-periods, 50 .. 500 ms.
half_list_ms == <<1, 2>>

PeriodMs(k) == 2 * half_list_ms[k]

\* The run time of a segment without its warmup cycles.
RunMsWithoutWarmup(k) == CYCLES_PER_FREQ * PeriodMs(k)

\* run_ms of segment k (lines 348-349).
RunMs(k) == (Sweep_WARMUP_CYCLES + CYCLES_PER_FREQ) * PeriodMs(k)

SweepRecord(half) ==
    [type |-> "SWEEP", half_ms |-> half, cycles |-> CYCLES_PER_FREQ]

\* ENDSWEEP printed with period_ms in place of half_ms.
EndSweepRecordOfPeriod(half) == [type |-> "ENDSWEEP", half_ms |-> 2 * half]

EndSweepRecord(half) == [type |-> "ENDSWEEP", half_ms |-> half]

SampleRecord(t, addr, h, gas) ==
    [type |-> "SAMPLE", t |-> t, addr |-> addr, heater |-> h, gas |-> gas]

\* main() up to the segment loop (lines 306-340), initialisation succeeding.
\* seg is the loop index i, counted from 1.
InitSweep ==
    /\ now \in StartTimes
    /\ t0 = now /\ next = now /\ run_start = now /\ ticks = 0
    /\ out = << [type |-> "HEADER"] >>
    /\ pc = "s_seg"
    /\ seg = 1 /\ seg_start = 0
    /\ TickIdle /\ IdleExcept({"sweep"})
    /\ init_failed = FALSE

\* Lines 342-353: a segment starts: SWEEP is printed, the segment origin is
\* read from the clock.
SweepSegStart ==
    /\ pc = "s_seg"
    /\ seg <= Len(half_list_ms)
    /\ out' = Append(out, SweepRecord(half_list_ms[seg]))
    /\ seg_start' = now
    /\ pc' = "s_loop"
    /\ UNCHANGED <<now, t0, next, ticks, run_start, tickVars, seg>>
    /\ UNCHANGED sweepRest

\* The origin of the run in its place.
SweepOriginRunStart == t0

\* The origin of rel, line 357: the start of the current segment.
SweepOrigin == seg_start

\* Lines 355-376: one tick of the segment: set-point from the segment-local
\* time, both sensors sampled, a record per successful sample, then the
\* deadline advances and the loop sleeps until it.
SweepTick ==
    /\ pc = "s_loop"
    /\ now - seg_start < RunMs(seg)
    /\ \E d \in 0..MaxSampleMs,
          s1 \in SampleOutcomes, s2 \in SampleOutcomes :
        LET r  == now - SweepOrigin
            ph == r % PeriodMs(seg)
            h  == IF ph < half_list_ms[seg] THEN Sweep_T_LOW_C
                                             ELSE Sweep_T_HIGH_C
            t_ms == (now + d) - t0
            rec1 == IF s1.ok THEN << SampleRecord(t_ms, ADDR1, h, s1.gas) >>
                             ELSE <<>>
            rec2 == IF s2.ok THEN << SampleRecord(t_ms, ADDR2, h, s2.gas) >>
                             ELSE <<>>
        IN  /\ heater' = h
            /\ ok1' = s1.ok /\ ok2' = s2.ok
            /\ g1' = s1.gas /\ g2' = s2.gas
            /\ out' = out \o rec1 \o rec2
            /\ next' = next + Sweep_TS_MS
            /\ ticks' = ticks + 1
            /\ now' \in SleepUntilMs(now + d, next + Sweep_TS_MS)
    /\ UNCHANGED <<pc, t0, run_start, rslt, seg, seg_start>>
    /\ UNCHANGED sweepRest

\* Line 378: the segment's run time has elapsed: ENDSWEEP is printed and the
\* for loop moves to the next list entry.
SweepSegEnd ==
    /\ pc = "s_loop"
    /\ now - seg_start >= RunMs(seg)
    /\ out' = Append(out, EndSweepRecord(half_list_ms[seg]))
    /\ seg' = seg + 1
    /\ pc' = "s_seg"
    /\ UNCHANGED <<now, t0, next, ticks, run_start, tickVars, seg_start>>
    /\ UNCHANGED sweepRest

\* Lines 381-383: the list is exhausted: both interfaces are released and
\* main returns 0.
SweepDone ==
    /\ pc = "s_seg"
    /\ seg > Len(half_list_ms)
    /\ pc' = "done"
    /\ rslt' = OK
    /\ UNCHANGED <<now, out, t0, next, ticks, run_start,
                   heater, ok1, ok2, g1, g2>>
    /\ UNCHANGED <<sweepVars, sweepRest>>

NextSweep == SweepSegStart \/ SweepTick \/ SweepSegEnd \/ SweepDone

SpecSweep == InitSweep /\ [][NextSweep]_vars

\* The program keeps running: a statement that can be executed is executed,
\* and sleep_until_ms returns (the clock advances).
SpecSweepFair == SpecSweep /\ WF_vars(NextSweep)

(***************************************************************************)
(* forced_2_fft (src/unnamed/part_002, lines 1-316)                        *)
(***************************************************************************)
Fft_T_LOW_C  == 275
Fft_T_HIGH_C == 325

\* T_SW_MS, T_HALF_MS, TS_MS, FFT_N, WARMUP_WINDOWS of the source (200, 100,
\* 50, 40, 2), scaled; FFT_BINS is derived as in the source.
T_SW_MS        == 4
T_HALF_MS      == 2
Fft_TS_MS      == 1
Fft_FFT_N      == 4
FFT_BINS       == Fft_FFT_N \div 2 + 1
WARMUP_WINDOWS == 1

\* The loop is explored until FftMaxWindows windows have been completed.
FftMaxWindows == 2

\* FS_HZ = 1000.0 / TS_MS, as a fraction.
FS_HZ == [num |-> 1000, den |-> Fft_TS_MS]

\* The routine without the mean subtraction of lines 130-132 and 139.
dft_mags_dc_kept(x, N) ==
    LET xn  == [n \in 0..(N - 1) |-> N * x[n]]
        Dot(tab, k) ==
            SumTo([n \in 0..(N - 1) |-> xn[n] * tab[Twelfths(k, n, N)]], N)
        MagSq(re2, a, b) == re2 * re2 + 3 * a * a + 4 * b * b
    IN  [k \in 0..(N \div 2) |->
            MagSq(Dot(Cos2, k), Dot(SinR3, k), Dot(SinInt, k))]

\* dft_mags_dc_removed(x, N, mags_out), lines 128-150.  With xn = x[n] - mean,
\* N * xn = N * x[n] - sum(x) is an integer, and so are
\*   re2 = 2 * N^2 * re,  and a, b with  2 * N^2 * im = a * sqrt(3) + 2 * b
\* (one of a, b is zero for every N the twiddles are defined for).  The
\* magnitude sqrt(re^2 + im^2) is carried as its square times 4 * N^4,
\*   re2^2 + 3 * a^2 + 4 * b^2,
\* which is zero exactly when the magnitude is, and orders as it does.
dft_mags_dc_removed(x, N) ==
    LET sum == SumTo(x, N)
        xn  == [n \in 0..(N - 1) |-> N * x[n] - sum]
        Dot(tab, k) ==
            SumTo([n \in 0..(N - 1) |-> xn[n] * tab[Twelfths(k, n, N)]], N)
        MagSq(re2, a, b) == re2 * re2 + 3 * a * a + 4 * b * b
    IN  [k \in 0..(N \div 2) |->
            MagSq(Dot(Cos2, k), Dot(SinR3, k), Dot(SinInt, k))]

\* The comparisons of the scan written with >= in place of >.
PeakStepTiesLater(st, a, k) ==
    IF a >= st.a1
    THEN [k1 |-> k, a1 |-> a, k2 |-> st.k1, a2 |-> st.a1,
          k3 |-> st.k2, a3 |-> st.a2]
    ELSE IF a >= st.a2
    THEN [k1 |-> st.k1, a1 |-> st.a1, k2 |-> k, a2 |-> a,
          k3 |-> st.k2, a3 |-> st.a2]
    ELSE IF a >= st.a3
    THEN [k1 |-> st.k1, a1 |-> st.a1, k2 |-> st.k2, a2 |-> st.a2,
          k3 |-> k, a3 |-> a]
    ELSE st

\* The scan step of top3_peaks with the comparisons dropped: every bin
\* visited displaces the first peak.
PeakStepKeepsLast(st, a, k) ==
    [k1 |-> k, a1 |-> a, k2 |-> st.k1, a2 |-> st.a1,
     k3 |-> st.k2, a3 |-> st.a2]

\* One iteration of the scan of top3_peaks, lines 163-166.
PeakStep(st, a, k) ==
    IF a > st.a1
    THEN [k1 |-> k, a1 |-> a, k2 |-> st.k1, a2 |-> st.a1,
          k3 |-> st.k2, a3 |-> st.a2]
    ELSE IF a > st.a2
    THEN [k1 |-> st.k1, a1 |-> st.a1, k2 |-> k, a2 |-> a,
          k3 |-> st.k2, a3 |-> st.a2]
    ELSE IF a > st.a3
    THEN [k1 |-> st.k1, a1 |-> st.a1, k2 |-> st.k2, a2 |-> st.a2,
          k3 |-> k, a3 |-> a]
    ELSE st

RECURSIVE PeakScan(_, _, _, _)
\* The for loop of lines 161-167, from bin k on.
PeakScan(m, k, nbins, st) ==
    IF k < nbins THEN PeakScan(m, k + 1, nbins, PeakStep(st, m[k], k)) ELSE st

\* (double)k * fs / (double)N, as a fraction.
BinFreq(k, fs, N) == [num |-> k * fs.num, den |-> fs.den * N]

\* top3_peaks with the scan started at the DC bin.
top3_peaks_from_dc(m, nbins, fs, N) ==
    LET st == PeakScan(m, 0, nbins,
                       [k1 |-> 1, a1 |-> -1, k2 |-> 1, a2 |-> -1,
                        k3 |-> 1, a3 |-> -1])
    IN  << [f |-> BinFreq(st.k1, fs, N), m |-> st.a1],
           [f |-> BinFreq(st.k2, fs, N), m |-> st.a2],
           [f |-> BinFreq(st.k3, fs, N), m |-> st.a3] >>

\* top3_peaks(mags, bins, fs, N, &f1, &m1, &f2, &m2, &f3, &m3), lines 152-172:
\* the three (frequency, magnitude) outputs, in order.
top3_peaks(m, nbins, fs, N) ==
    LET st == PeakScan(m, 1, nbins,
                       [k1 |-> 1, a1 |-> -1, k2 |-> 1, a2 |-> -1,
                        k3 |-> 1, a3 |-> -1])
    IN  << [f |-> BinFreq(st.k1, fs, N), m |-> st.a1],
           [f |-> BinFreq(st.k2, fs, N), m |-> st.a2],
           [f |-> BinFreq(st.k3, fs, N), m |-> st.a3] >>

FftRecord(t, addr, m) ==
    [type |-> "FFT", t |-> t, addr |-> addr, fs |-> FS_HZ, mags |-> m]

PeakRecord(t, addr, pk) ==
    [type |-> "PEAK", t |-> t, addr |-> addr, peaks |-> pk]

\* The value the tick stores at x[idx]: the reading, or on a failed sample
\* x[(idx > 0) ? (idx - 1) : 0] (lines 240-244).
StoredValue(x, s) ==
    IF s.ok THEN s.gas ELSE x[IF idx > 0 THEN idx - 1 ELSE 0]

\* main() up to the loop (lines 175-221), initialisation succeeding: the
\* windows are zero-filled; nothing is printed on stdout (PRINT_RAW is 0).
InitFft ==
    /\ now \in StartTimes
    /\ t0 = now /\ next = now /\ run_start = now /\ ticks = 0
    /\ out = <<>>
    /\ pc = "f_loop"
    /\ TickIdle /\ IdleExcept({"fft"})
    /\ init_failed = FALSE
    /\ x1 = Zeros(Fft_FFT_N) /\ x2 = Zeros(Fft_FFT_N)
    /\ idx = 0 /\ window_id = 0
    /\ last_stored = [c \in Channels |-> <<>>]

\* The window test of line 274 with > in place of >=.
WindowFullLate(n) == n > Fft_FFT_N

\* if (idx >= FFT_N), line 274, n being idx after the increment of line 271.
WindowFull(n) == n >= Fft_FFT_N

\* The rest of the loop body once both sensors have been sampled, lines
\* 238-309, t_read being the clock reading of line 238: the readings (or the
\* held values) stored at idx, the window analysed and printed when it is
\* full, the deadline advanced, sleep.
FftTail(t_read, s1, s2) ==
    LET t_ms  == t_read - t0
        v1    == StoredValue(x1, s1)
        v2    == StoredValue(x2, s2)
        nx1   == [x1 EXCEPT ![idx] = v1]
        nx2   == [x2 EXCEPT ![idx] = v2]
        full  == WindowFull(idx + 1)
        mags1 == dft_mags_dc_removed(nx1, Fft_FFT_N)
        mags2 == dft_mags_dc_removed(nx2, Fft_FFT_N)
    IN  /\ x1' = nx1 /\ x2' = nx2
        /\ last_stored' = [c \in Channels |-> IF c = 1 THEN <<v1>> ELSE <<v2>>]
        /\ idx' = (IF full THEN 0 ELSE idx + 1)
        /\ window_id' = (IF full THEN window_id + 1 ELSE window_id)
        /\ out' = (IF full /\ window_id + 1 > WARMUP_WINDOWS
                   THEN out \o
                        << FftRecord(t_ms, ADDR1, mags1),
                           FftRecord(t_ms, ADDR2, mags2),
                           PeakRecord(t_ms, ADDR1,
                               top3_peaks(mags1, FFT_BINS, FS_HZ, Fft_FFT_N)),
                           PeakRecord(t_ms, ADDR2,
                               top3_peaks(mags2, FFT_BINS, FS_HZ, Fft_FFT_N)) >>
                   ELSE out)
        /\ next' = next + Fft_TS_MS
        /\ ticks' = ticks + 1
        /\ now' \in SleepUntilMs(t_read, next + Fft_TS_MS)

\* The loop body, lines 225-309: set-point from the phase, both sensors
\* sampled, then the rest of the tick.
FftTick ==
    /\ pc = "f_loop"
    /\ window_id < FftMaxWindows
    /\ \E d \in 0..MaxSampleMs,
          s1 \in SampleOutcomes, s2 \in SampleOutcomes :
        LET phase == (now - t0) % T_SW_MS
            h     == IF phase < T_HALF_MS THEN Fft_T_LOW_C ELSE Fft_T_HIGH_C
        IN  /\ heater' = h
            /\ ok1' = s1.ok /\ ok2' = s2.ok
            /\ g1' = s1.gas /\ g2' = s2.gas
            /\ FftTail(now + d, s1, s2)
    /\ UNCHANGED <<pc, t0, run_start, rslt, init_failed>>
    /\ UNCHANGED <<ratioVars, hystVars, sweepVars, peakVars, featVars,
                   intfVars, rawVars, extVars>>

NextFft == FftTick

SpecFft == InitFft /\ [][NextFft]_vars

(***************************************************************************)
(* The tick of forced_2_fft, bus transaction by bus transaction            *)
(* (src/unnamed/part_002, lines 101-125 and 225-309)                       *)
(***************************************************************************)
\* The loop is followed step by step for StepMaxTicks ticks.
StepMaxTicks == 5

\* The set-point worked out again from the clock when the sensor is armed.
HeatrTempAtArm ==
    IF (now - t0) % T_SW_MS < T_HALF_MS THEN Fft_T_LOW_C ELSE Fft_T_HIGH_C

\* heatr_conf.heatr_temp at the time sample_once() arms a sensor: the value
\* line 234 stored in it at the start of the tick.
HeatrTemp == heater

\* A sample_once() call is between its first bus access and its return.
InFlight(c) == stage[c] \in {"armed", "triggered", "waited"}

InitSteps ==
    /\ now \in StartTimes
    /\ t0 = now /\ next = now /\ run_start = now /\ ticks = 0
    /\ out = <<>>
    /\ pc = "k_setpoint"
    /\ TickIdle /\ IdleExcept({"fft", "bus"})
    /\ init_failed = FALSE
    /\ x1 = Zeros(Fft_FFT_N) /\ x2 = Zeros(Fft_FFT_N)
    /\ idx = 0 /\ window_id = 0
    /\ last_stored = [c \in Channels |-> <<>>]
    /\ stage = [c \in Channels |-> "idle"]
    /\ armed = [c \in Channels |-> 0]
    /\ evals = 0

StepsFrame ==
    UNCHANGED <<ratioVars, hystVars, sweepVars, peakVars, featVars, intfVars,
                rawVars, dftVars, profVars, init_failed, t0, run_start, rslt>>

\* Lines 226-234: the clock is read, the set-point derived from the phase and
\* stored in heatr_conf.
StepSetPoint ==
    /\ pc = "k_setpoint"
    /\ ticks < StepMaxTicks
    /\ heater' = (IF (now - t0) % T_SW_MS < T_HALF_MS
                  THEN Fft_T_LOW_C ELSE Fft_T_HIGH_C)
    /\ evals' = evals + 1
    /\ stage' = [c \in Channels |-> "idle"]
    /\ armed' = [c \in Channels |-> 0]
    /\ ok1' = FALSE /\ ok2' = FALSE /\ g1' = 0 /\ g2' = 0
    /\ pc' = "k_sample1"
    /\ UNCHANGED <<now, out, next, ticks, fftVars>>
    /\ StepsFrame

\* sample_once() on channel c returns s to line 235 (c = 1) or 236 (c = 2).
StepReturn(c, s) ==
    /\ stage' = [stage EXCEPT ![c] = IF s.ok THEN "done" ELSE "failed"]
    /\ IF c = 1
       THEN ok1' = s.ok /\ g1' = s.gas /\ UNCHANGED <<ok2, g2>>
       ELSE ok2' = s.ok /\ g2' = s.gas /\ UNCHANGED <<ok1, g1>>
    /\ pc' = (IF c = 1 THEN "k_sample2" ELSE "k_finish")

StepFailed == [ok |-> FALSE, gas |-> 0]

PcOf(c) == IF c = 1 THEN "k_sample1" ELSE "k_sample2"

\* Lines 110-111: bme69x_set_heatr_conf writes the set-point to the sensor.
StepArm(c) ==
    /\ pc = PcOf(c) /\ stage[c] = "idle"
    /\ \E r \in {OK, FAIL} :
          IF r = OK
          THEN /\ stage' = [stage EXCEPT ![c] = "armed"]
               /\ armed' = [armed EXCEPT ![c] = HeatrTemp]
               /\ UNCHANGED <<pc, ok1, ok2, g1, g2>>
          ELSE StepReturn(c, StepFailed) /\ UNCHANGED armed
    /\ UNCHANGED <<now, out, next, ticks, heater, evals, fftVars>>
    /\ StepsFrame

\* Lines 113-114: bme69x_set_op_mode starts the measurement.
StepTrigger(c) ==
    /\ pc = PcOf(c) /\ stage[c] = "armed"
    /\ \E r \in {OK, FAIL} :
          IF r = OK
          THEN /\ stage' = [stage EXCEPT ![c] = "triggered"]
               /\ UNCHANGED <<pc, ok1, ok2, g1, g2>>
          ELSE StepReturn(c, StepFailed)
    /\ UNCHANGED <<now, out, next, ticks, heater, armed, evals, fftVars>>
    /\ StepsFrame

\* Lines 116-119: delay_us for the measurement and heater durations.
StepWait(c) ==
    /\ pc = PcOf(c) /\ stage[c] = "triggered"
    /\ \E d \in 0..MaxSampleMs : now' = now + d
    /\ stage' = [stage EXCEPT ![c] = "waited"]
    /\ UNCHANGED <<pc, ok1, ok2, g1, g2>>
    /\ UNCHANGED <<out, next, ticks, heater, armed, evals, fftVars>>
    /\ StepsFrame

\* Lines 121-124: bme69x_get_data; the call returns.
StepRead(c) ==
    /\ pc = PcOf(c) /\ stage[c] = "waited"
    /\ \E s \in SampleOutcomes : StepReturn(c, s)
    /\ UNCHANGED <<now, out, next, ticks, heater, armed, evals, fftVars>>
    /\ StepsFrame

\* Lines 238-309: the rest of the tick; the loop goes round.
StepFinish ==
    /\ pc = "k_finish"
    /\ FftTail(now, [ok |-> ok1, gas |-> g1], [ok |-> ok2, gas |-> g2])
    /\ evals' = 0
    /\ pc' = "k_setpoint"
    /\ UNCHANGED <<heater, ok1, ok2, g1, g2, stage, armed>>
    /\ StepsFrame

NextSteps ==
    \/ StepSetPoint
    \/ \E c \in Channels : StepArm(c)
    \/ \E c \in Channels : StepTrigger(c)
    \/ \E c \in Channels : StepWait(c)
    \/ \E c \in Channels : StepRead(c)
    \/ StepFinish

SpecSteps == InitSteps /\ [][NextSteps]_vars

(***************************************************************************)
(* Bus interface (src/Time_Constant/common/common.c)                       *)
(***************************************************************************)
\* The callers' handles: bme1, bme2.
Handles == {1, 2}

\* Pointer values: the null pointer; an indeterminate non-null value (what an
\* uninitialised struct on the stack may hold); the contexts returned by
\* malloc() are numbered 1, 2, ... in allocation order.
NULL == 0
WILD == -1

\* The descriptor open() returns.
BUS_FD == 3

\* struct bme69x_dev bme1, bme2; declared without an initialiser: intf_ptr is
\* indeterminate until bme69x_interface_init() has set it.
UninitHandles == [Handles -> {NULL, WILD}]

\* The test of line 92 dropped: the bus is opened by every call.
BusNotOpenOrOpen(fd) == TRUE

\* if (shared_fd < 0), line 92.
BusNotOpen(fd) == fd < 0

\* bme69x_interface_init(bme, BME69X_I2C_INTF, i2c_addr) returning r
\* (lines 83-119), called with a non-null bme: the bus is opened when
\* shared_fd < 0 (open() may fail); a context is allocated (malloc() may
\* fail), filled and attached to the handle.
bme69x_interface_init(h, i2c_addr, r) ==
    \E open_ok \in BOOLEAN, alloc_ok \in BOOLEAN :
        LET opening == BusNotOpen(shared_fd)
            fd      == IF opening
                       THEN (IF open_ok THEN BUS_FD ELSE -1)
                       ELSE shared_fd
            id      == Len(ctx_of) + 1
        IN  /\ opening \/ open_ok
            /\ shared_fd' = fd
            /\ opens' = (IF opening /\ open_ok THEN opens + 1 ELSE opens)
            /\ IF fd < 0 \/ ~alloc_ok
               THEN /\ r = FAIL
                    /\ UNCHANGED <<intf_ptr, heap, ctx_of, deinits>>
               ELSE /\ r = OK
                    /\ ctx_of' = Append(ctx_of, [fd |-> fd, addr |-> i2c_addr])
                    /\ heap' = heap \cup {id}
                    /\ intf_ptr' = [intf_ptr EXCEPT ![h] = id]
                    /\ deinits' = [deinits EXCEPT ![h] = <<0>>]
            /\ UNCHANGED <<closes, freed>>

\* bme69x_interface_deinit with the assignment bme->intf_ptr = NULL left out.
DeinitKeepsPointer(p) == p

\* The handle's pointer after bme69x_interface_deinit (line 130).
DeinitPointer(p) == NULL

\* bme69x_interface_deinit(bme) (lines 122-136), called with a non-null bme:
\* a non-null intf_ptr is passed to free() and cleared; shared_fd is left
\* open.
bme69x_interface_deinit(h) ==
    /\ IF intf_ptr[h] # NULL
       THEN /\ freed' = Append(freed, intf_ptr[h])
            /\ heap' = heap \ {intf_ptr[h]}
            /\ intf_ptr' = [intf_ptr EXCEPT ![h] = DeinitPointer(intf_ptr[h])]
       ELSE UNCHANGED <<freed, heap, intf_ptr>>
    /\ deinits' = [deinits EXCEPT
                      ![h] = IF @ = <<>> THEN @ ELSE << @[1] + 1 >>]
    /\ UNCHANGED <<shared_fd, ctx_of, opens, closes>>

\* free() was given p while p was not a live allocation.
InvalidFree(p) == p \notin heap

\* init_sensor(bme, addr, conf, heatr_conf) returning r
\* (forced_2_gas.c lines 38-59): the interface is initialised, then the
\* driver calls bme69x_init, bme69x_set_conf, bme69x_set_heatr_conf are made,
\* any of which may fail.
init_sensor(h, addr, r) ==
    \E ri \in {OK, FAIL} :
        /\ bme69x_interface_init(h, addr, ri)
        /\ IF ri # OK THEN r = ri ELSE r \in {OK, FAIL}

\* ---- the interface called in any order -------------------------------
\* Calls made while exploring the interface on its own.
MaxIntfCalls == 5

InitIntf ==
    /\ now = 0 /\ t0 = 0 /\ next = 0 /\ run_start = 0 /\ ticks = 0
    /\ out = <<>>
    /\ pc = "api"
    /\ TickIdle /\ IdleExcept({"intf"})
    /\ init_failed = FALSE
    /\ shared_fd = -1
    /\ intf_ptr \in UninitHandles
    /\ heap = {} /\ ctx_of = <<>>
    /\ opens = 0 /\ closes = 0 /\ freed = <<>>
    /\ deinits = [h \in Handles |-> <<>>]

IntfFrame ==
    /\ UNCHANGED <<now, out, pc, t0, next, run_start, heater, ok1, ok2, g1, g2,
                   init_failed>>
    /\ UNCHANGED <<ratioVars, hystVars, sweepVars, fftVars, peakVars, featVars,
                   rawVars, extVars>>

CallInterfaceInit ==
    /\ pc = "api"
    /\ ticks < MaxIntfCalls
    /\ \E h \in Handles, r \in {OK, FAIL} :
          /\ bme69x_interface_init(h, Addr(h), r)
          /\ rslt' = r
    /\ ticks' = ticks + 1
    /\ IntfFrame

CallInterfaceDeinit ==
    /\ pc = "api"
    /\ ticks < MaxIntfCalls
    /\ \E h \in Handles : bme69x_interface_deinit(h)
    /\ ticks' = ticks + 1
    /\ UNCHANGED rslt
    /\ IntfFrame

NextIntf == CallInterfaceInit \/ CallInterfaceDeinit

SpecIntf == InitIntf /\ [][NextIntf]_vars

(***************************************************************************)
(* forced_2_gas (src/GC_MOX_FFT/forced_mode/forced_2_gas.c)                *)
(***************************************************************************)
\* SAMPLE_MS, WARMUP_SAMPLES of the source (200, 10), scaled.
SAMPLE_MS      == 2
WARMUP_SAMPLES == 1

\* The loop is explored for RawMaxSamples ticks.
RawMaxSamples == 3

\* main() is entered (lines 83-102): bme1 and bme2 are uninitialised.
InitRaw ==
    /\ now \in StartTimes
    /\ t0 = 0 /\ next = 0 /\ run_start = 0 /\ ticks = 0
    /\ out = <<>>
    /\ pc = "g_init1"
    /\ TickIdle /\ IdleExcept({"intf"})
    /\ init_failed = FALSE
    /\ shared_fd = -1
    /\ intf_ptr \in UninitHandles
    /\ heap = {} /\ ctx_of = <<>>
    /\ opens = 0 /\ closes = 0 /\ freed = <<>>
    /\ deinits = [h \in Handles |-> <<>>]

RawFrame ==
    /\ UNCHANGED <<ratioVars, hystVars, sweepVars, fftVars, peakVars, featVars,
                   extVars>>

\* rslt = init_sensor(&bme<h>, ...) and the test that follows (line 105 and
\* the condition of 106 for bme1, 108-109 for bme2).
RawInitSensor(at, h, ok_pc, fail_pc) ==
    /\ pc = at
    /\ \E r \in {OK, FAIL} :
          /\ init_sensor(h, Addr(h), r)
          /\ rslt' = r
          /\ init_failed' = (r # OK)
          /\ pc' = (IF r = OK THEN ok_pc ELSE fail_pc)
    /\ UNCHANGED <<now, out, t0, next, ticks, run_start,
                   heater, ok1, ok2, g1, g2, sample>>
    /\ RawFrame

RawInitSensor1 == RawInitSensor("g_init1", 1, "g_init2", "g_fail1")

RawInitSensor2 == RawInitSensor("g_init2", 2, "g_start", "g_fail2a")

\* A bme69x_interface_deinit() call of a failure path.  Passing free() a
\* pointer that is not a live allocation is undefined: the process is
\* aborted by the allocator or carries on.
RawDeinit(at, h, after) ==
    /\ pc = at
    /\ bme69x_interface_deinit(h)
    /\ pc' \in (IF intf_ptr[h] # NULL /\ InvalidFree(intf_ptr[h])
                THEN {after, "crashed"} ELSE {after})
    /\ UNCHANGED <<now, out, t0, next, ticks, run_start, tickVars, sample,
                   init_failed>>
    /\ RawFrame

\* Line 106: { bme69x_interface_deinit(&bme1); return rslt; }
RawFail1 == RawDeinit("g_fail1", 1, "done")

\* Lines 110-112: deinit of bme1, deinit of bme2, return rslt.
RawFail2Deinit1 == RawDeinit("g_fail2a", 1, "g_fail2b")

RawFail2Deinit2 == RawDeinit("g_fail2b", 2, "done")

RawRecord(t, addr, gas) == [type |-> "RAW", t |-> t, addr |-> addr, gas |-> gas]

\* Lines 115-121: origin, first deadline, CSV header.
RawStart ==
    /\ pc = "g_start"
    /\ t0' = now /\ next' = now /\ run_start' = now
    /\ out' = << [type |-> "HEADER"] >>
    /\ pc' = "g_loop"
    /\ UNCHANGED <<now, ticks, tickVars, sample, init_failed, intfVars>>
    /\ RawFrame

\* The two lines printed only when both samples succeeded.
RawRecordsWhenBothOk(t, s1, s2) ==
    IF s1.ok /\ s2.ok
    THEN << RawRecord(t, ADDR1, s1.gas), RawRecord(t, ADDR2, s2.gas) >>
    ELSE <<>>

\* Lines 135-157: if (ok1) a line for 0x76, if (ok2) a line for 0x77.
RawRecords(t, s1, s2) ==
    (IF s1.ok THEN << RawRecord(t, ADDR1, s1.gas) >> ELSE <<>>)
    \o (IF s2.ok THEN << RawRecord(t, ADDR2, s2.gas) >> ELSE <<>>)

\* The loop body, lines 125-160: both sensors sampled, the sample counter
\* incremented, a record per successful sample once the warmup samples are
\* over, the deadline advanced, sleep.
RawTick ==
    /\ pc = "g_loop"
    /\ sample < RawMaxSamples
    /\ \E d \in 0..MaxSampleMs,
          s1 \in SampleOutcomes, s2 \in SampleOutcomes :
        LET t_ms == (now + d) - t0
        IN  /\ ok1' = s1.ok /\ ok2' = s2.ok
            /\ g1' = s1.gas /\ g2' = s2.gas
            /\ sample' = sample + 1
            /\ out' = (IF sample + 1 > WARMUP_SAMPLES
                       THEN out \o RawRecords(t_ms, s1, s2) ELSE out)
            /\ next' = next + SAMPLE_MS
            /\ ticks' = ticks + 1
            /\ now' \in SleepUntilMs(now + d, next + SAMPLE_MS)
    /\ UNCHANGED <<pc, t0, run_start, heater, rslt, init_failed, intfVars>>
    /\ RawFrame

NextRaw ==
    \/ RawInitSensor1
    \/ RawInitSensor2
    \/ RawFail1
    \/ RawFail2Deinit1
    \/ RawFail2Deinit2
    \/ RawStart
    \/ RawTick

SpecRaw == InitRaw /\ [][NextRaw]_vars

(***************************************************************************)
(* top3_peaks on its own (src/unnamed/part_002, lines 152-172)             *)
(***************************************************************************)
\* The magnitudes and bin counts top3_peaks is applied to.
PeakMagValues == {0, 1, 2}
MaxPeakBins   == 5

\* A window length N with N/2 + 1 = nbins (FFT_BINS of line 48).
WindowLenOf(nbins) == 2 * nbins - 1

InitPeaks ==
    /\ now = 0 /\ t0 = 0 /\ next = 0 /\ run_start = 0 /\ ticks = 0
    /\ out = <<>>
    /\ pc = "p_call"
    /\ TickIdle /\ IdleExcept({"peak"})
    /\ init_failed = FALSE
    /\ bins \in 1..MaxPeakBins
    /\ mags \in [0..(bins - 1) -> PeakMagValues]
    /\ peaks = <<>>

\* The call top3_peaks(mags, bins, FS_HZ, N, &f1, &m1, &f2, &m2, &f3, &m3).
PeaksCall ==
    /\ pc = "p_call"
    /\ peaks' = top3_peaks(mags, bins, FS_HZ, WindowLenOf(bins))
    /\ pc' = "p_done"
    /\ UNCHANGED <<now, out, t0, next, ticks, run_start, tickVars, mags, bins,
                   init_failed>>
    /\ UNCHANGED <<ratioVars, hystVars, sweepVars, fftVars, featVars, intfVars,
                   rawVars, extVars>>

NextPeaks == PeaksCall

SpecPeaks == InitPeaks /\ [][NextPeaks]_vars

(***************************************************************************)
(* print_feature_vector on its own                                         *)
(* (src/Time_Constant/forced_mode/forced_mode_fft.c, lines 48-67)          *)
(***************************************************************************)
\* Window lengths the function is applied to: 0 .. MaxProfileLen.
MaxProfileLen == 5

\* The differences taken the other way round, up - down_flip.
FeatureDiffsUpMinusDown(gc, plen) ==
    [j \in 0..((plen \div 2) - 1) |-> gc[j] - gc[plen - 1 - j]]

\* The loop of lines 57-64: for i < profile_len / 2,
\* diff = gas_cycle[profile_len - 1 - i] - gas_cycle[i].
FeatureDiffs(gc, plen) ==
    [j \in 0..((plen \div 2) - 1) |-> gc[plen - 1 - j] - gc[j]]

FeatureVecRecord(id, diffs) ==
    [type |-> "FEATURE_VEC", cycle_id |-> id, diff |-> diffs]

\* Cycle ids the caller passes: those above its WARMUP_CYCLES of 2
\* (lines 185-188).
FeatureCycleIds == {3, 4}

InitFeat ==
    /\ now = 0 /\ t0 = 0 /\ next = 0 /\ run_start = 0 /\ ticks = 0
    /\ out = <<>>
    /\ pc = "v_call"
    /\ TickIdle /\ IdleExcept({"feat"})
    /\ init_failed = FALSE
    /\ profile_len \in 0..MaxProfileLen
    /\ gas_cycle \in [0..(profile_len - 1) -> GasValues]

\* The call print_feature_vector(cycle_id, gas_cycle, profile_len).
PrintFeatureVector ==
    /\ pc = "v_call"
    /\ \E id \in FeatureCycleIds :
          out' = Append(out, FeatureVecRecord(id,
                                 FeatureDiffs(gas_cycle, profile_len)))
    /\ pc' = "v_done"
    /\ UNCHANGED <<now, t0, next, ticks, run_start, tickVars, gas_cycle,
                   profile_len, init_failed>>
    /\ UNCHANGED <<ratioVars, hystVars, sweepVars, fftVars, peakVars, intfVars,
                   rawVars, extVars>>

NextFeat == PrintFeatureVector

SpecFeat == InitFeat /\ [][NextFeat]_vars

(***************************************************************************)
(* Stepped-profile loop                                                    *)
(* (src/Time_Constant/forced_mode/forced_mode_fft.c, lines 72-199)         *)
(***************************************************************************)
\* profile[] of lines 86-88 (eight set-points, up then down), shortened.
profile == <<100, 325, 325, 100>>

\* SAMPLE_COUNT and WARMUP_CYCLES of the source (600, 2), scaled.
SAMPLE_COUNT       == 8
Prof_WARMUP_CYCLES == 1

\* The explored runs have at most ProfMaxRetries runs of consecutive reads
\* that come back with zero valid fields; such a run can have any length.
\* The history counters ticks and attempts follow it for its first
\* ProfMaxAttempts reads.
ProfMaxRetries  == 1
ProfMaxAttempts == 2

\* millis_since_start() returns (uint32_t)ms, line 42: the program sees the
\* clock modulo the width of that result (2^32, scaled), and the clock is
\* carried as that value.
MillisWrap == 16

\* The time from one clock reading of line 145 to the next: at least the
\* delay of lines 141-143 (measurement and heater duration), scaled.
MaxPassMs == 1
ProfilePassTimes == 1..MaxPassMs

\* The hysteresis state but cycle_id, which the profile loop has too.
hystButCycleId == <<t_start, i, low, high, y_cycle, fft_buf, fft_pos,
                    fft_filled, pushed, cyc_samples>>

\* The set-point taken at index sample_count % profile_len.
StepTempFromSampleCount(sc) == profile[(sc % Len(profile)) + 1]

\* profile[(sample_count - 1U) % profile_len], line 129 (the C array is
\* indexed from 0).
StepTemp(sc) == profile[((sc - 1) % Len(profile)) + 1]

\* The raw line of lines 155-163.
ProfileRecord(sc, step_temp, t, gas) ==
    [type |-> "STEP", sample |-> sc, step_temp |-> step_temp, t |-> t,
     gas |-> gas]

\* main() up to the loop (lines 72-124), initialisation succeeding: the
\* timestamp baseline is taken and the header printed.
InitProfile ==
    /\ now \in StartTimes
    /\ t0 = now /\ next = 0 /\ run_start = now /\ ticks = 0
    /\ out = << [type |-> "HEADER"] >>
    /\ pc = "q_loop"
    /\ TickIdle /\ IdleExcept({"prof", "feat"})
    /\ init_failed = FALSE
    /\ sample_count = 1 /\ cycle_index = 0 /\ attempts = 0
    /\ profile_len = Len(profile)
    /\ gas_cycle = Zeros(Len(profile))

ProfileFrame ==
    UNCHANGED <<ratioVars, hystButCycleId, sweepVars, fftVars, peakVars,
                intfVars, rawVars, dftVars, busVars, init_failed,
                t0, next, run_start, ok2, g1, g2, profile_len>>

\* What one pass through the loop body can meet: an error of
\* bme69x_set_heatr_conf or bme69x_set_op_mode (before the measurement), an
\* error of bme69x_get_data, a read with zero valid fields, or a reading.
ProfileOutcomes ==
    {[kind |-> "setup_error", gas |-> 0], [kind |-> "read_error", gas |-> 0],
     [kind |-> "no_fields", gas |-> 0]}
    \cup {[kind |-> "data", gas |-> v] : v \in GasValues}

\* One pass through the loop body, lines 126-195.
ProfileStep ==
    /\ pc = "q_loop"
    /\ sample_count <= SAMPLE_COUNT
    /\ \E o \in ProfileOutcomes, d \in ProfilePassTimes :
        LET step_temp == StepTemp(sample_count)
            t_ms      == ((now + d) - t0) % MillisWrap
            counted   == attempts < ProfMaxAttempts
            ngc       == [gas_cycle EXCEPT ![cycle_index] = o.gas]
            full      == cycle_index + 1 >= profile_len
        IN
        /\ o.kind = "no_fields" =>
              attempts > 0 \/ ticks - (sample_count - 1) < ProfMaxRetries
        /\ heater' = step_temp
        /\ CASE o.kind = "setup_error" ->
                  /\ rslt' = FAIL /\ pc' = "q_exit"
                  /\ UNCHANGED <<now, out, ticks, ok1, sample_count,
                                 cycle_index, attempts, gas_cycle, cycle_id>>
             [] o.kind = "read_error" ->
                  /\ rslt' = FAIL /\ pc' = "q_exit"
                  /\ now' = t0 + t_ms
                  /\ ticks' = ticks + 1
                  /\ attempts' = attempts + 1
                  /\ ok1' = FALSE
                  /\ UNCHANGED <<out, sample_count, cycle_index, gas_cycle,
                                 cycle_id>>
             [] o.kind = "no_fields" ->
                  /\ rslt' = OK /\ pc' = "q_loop"
                  /\ now' = t0 + t_ms
                  /\ ticks' = (IF counted THEN ticks + 1 ELSE ticks)
                  /\ attempts' = (IF counted THEN attempts + 1 ELSE attempts)
                  /\ ok1' = FALSE
                  /\ UNCHANGED <<out, sample_count, cycle_index, gas_cycle,
                                 cycle_id>>
             [] o.kind = "data" ->
                  /\ rslt' = OK /\ pc' = "q_loop"
                  /\ now' = t0 + t_ms
                  /\ ticks' = ticks + 1
                  /\ attempts' = 0
                  /\ ok1' = TRUE
                  /\ gas_cycle' = ngc
                  /\ cycle_index' = (IF full THEN 0 ELSE cycle_index + 1)
                  /\ cycle_id' = (IF full THEN cycle_id + 1 ELSE cycle_id)
                  /\ out' = out
                       \o << ProfileRecord(sample_count, step_temp, t_ms,
                                           o.gas) >>
                       \o (IF full /\ cycle_id + 1 > Prof_WARMUP_CYCLES
                           THEN << FeatureVecRecord(cycle_id + 1,
                                       FeatureDiffs(ngc, profile_len)) >>
                           ELSE <<>>)
                  /\ sample_count' = sample_count + 1
    /\ ProfileFrame

\* Lines 126 and 197-198: the loop is left, by its condition or by a break;
\* the interface is released and main returns rslt.
ProfileExit ==
    /\ \/ pc = "q_loop" /\ sample_count > SAMPLE_COUNT
       \/ pc = "q_exit"
    /\ pc' = "done"
    /\ UNCHANGED <<now, out, ticks, tickVars, cycle_id, profVars, gas_cycle>>
    /\ ProfileFrame

NextProfile == ProfileStep \/ ProfileExit

SpecProfile == InitProfile /\ [][NextProfile]_vars

\* The program keeps running: the loop body, and the exit once the loop is
\* left, are executed.  Nothing is assumed of what the sensor returns.
SpecProfileFair == SpecProfile /\ WF_vars(NextProfile)

\* The two programs that fill a window once per cycle and then start it
\* again, forced_2_fft and the stepped-profile program, either one run.
InitWindows == InitFft \/ InitProfile

NextWindows == NextFft \/ NextProfile

SpecWindows == InitWindows /\ [][NextWindows]_vars

(***************************************************************************)
(* The two spectrum routines on their own                                  *)
(* (src/unnamed/part_002, lines 128-172 and 281-303;                       *)
(*  src/unnamed/part_001, lines 86-112)                                    *)
(***************************************************************************)
\* The window lengths the routines are applied to (those the twiddle factors
\* are exact for) and the largest sample value of a window.
DftLens     == {1, 2, 3, 4, 6}
MaxDftValue == 4

InitDft ==
    /\ now = 0 /\ t0 = 0 /\ next = 0 /\ run_start = 0 /\ ticks = 0
    /\ out = <<>>
    /\ pc = "d_call"
    /\ TickIdle /\ IdleExcept({"dft", "peak"})
    /\ init_failed = FALSE
    /\ dft_N \in DftLens
    /\ dft_x \in [0..(dft_N - 1) -> 0..MaxDftValue]
    /\ mags = <<>> /\ bins = 0 /\ peaks = <<>>

\* What a full window goes through in forced_2_fft (lines 281-303, one
\* channel): dft_mags_dc_removed, the FFT record with its FFT_BINS
\* magnitudes, top3_peaks; and the dft_print call of the hysteresis loop on
\* the same window (line 221).
DftCall ==
    /\ pc = "d_call"
    /\ LET m == dft_mags_dc_removed(dft_x, dft_N)
           nbins == dft_N \div 2 + 1
       IN  /\ mags' = m
           /\ bins' = nbins
           /\ peaks' = top3_peaks(m, nbins, FS_HZ, dft_N)
           /\ out' = << FftRecord(0, ADDR1, m),
                        dft_print(1, dft_x, dft_N, Hyst_Fs) >>
    /\ pc' = "d_done"
    /\ UNCHANGED <<now, t0, next, ticks, run_start, tickVars, init_failed>>
    /\ UNCHANGED <<ratioVars, hystVars, sweepVars, fftVars, featVars, intfVars,
                   rawVars, dftVars, profVars, busVars>>

NextDft == DftCall

SpecDft == InitDft /\ [][NextDft]_vars

(***************************************************************************)
(* Scheduler                                                               *)
(***************************************************************************)

\* C1: in every acquisition loop the n-th deadline is run_start + n * interval:
\* each deadline is the previous one plus the tick interval and is never
\* re-derived from the clock, cycle boundaries included.  Stated here for the
\* hysteresis loop, whose interval is SUB_MS.
C1_DeadlineIsRunStartPlusTicks == next = run_start + ticks * SUB_MS

(***************************************************************************)
(* Rolling window of the hysteresis loop                                   *)
(***************************************************************************)

\* The last Hyst_FFT_N pushes, oldest first.
LastPushes ==
    [j \in 0..(Hyst_FFT_N - 1) |-> pushed[Len(pushed) - Hyst_FFT_N + j + 1]]

\* C2: the filled flag is false after fewer than N pushes and true from the
\* N-th push on; after N + k pushes the oldest-to-newest snapshot is pushes
\* k .. k + N - 1 in push order.
C2_RollingWindowSnapshot ==
    /\ fft_filled <=> (Len(pushed) >= Hyst_FFT_N)
    /\ Len(pushed) >= Hyst_FFT_N => Snapshot = LastPushes

\* A window that has wrapped: more than N pushes, the write cursor inside the
\* buffer, and the oldest and newest values of the snapshot different.
C2_WrappedWindowReached ==
    /\ Len(pushed) > Hyst_FFT_N
    /\ fft_pos # 0
    /\ fft_filled
    /\ Snapshot[0] # Snapshot[Hyst_FFT_N - 1]
    /\ pc = "h_fft"

(***************************************************************************)
(* Ratio emitter                                                           *)
(***************************************************************************)

\* The rollover step is about to print the two RATIO records.
RatioEmitting ==
    /\ pc = "r_rollover"
    /\ cycle # last_cycle
    /\ lowc # 0 /\ highc # 0

\* Equality of two fractions, neither a division by zero.
RatEq(x, y) == x.den # 0 /\ y.den # 0 /\ x.num * y.den = y.num * x.den

\* C3: for each channel, the mean used in an emitted ratio divides the
\* channel's sum by the number of that channel's accepted samples in the
\* phase: a failed sample of a channel counts neither in its sum nor in its
\* divisor, whatever the other channel did in that tick.
C3_MeanDividesByOwnAcceptedCount ==
    RatioEmitting =>
        \A c \in Channels :
            /\ LowDivisor(c) = n_low[c]
            /\ HighDivisor(c) = n_high[c]

\* C4: every sample that contributes to the ratio emitted at a rollover had
\* its set-point evaluated in the period(s) that just completed; no sample of
\* the new period is in the accumulators when the ratio is computed, and
\* once the rollover step is over a sample accepted in this tick is held by
\* the accumulators of its own period.
C4_EmittedRatioUsesCompletedPeriodOnly ==
    /\ RatioEmitting =>
          /\ cycle \notin acc_cycles
          /\ \A p \in acc_cycles : last_cycle <= p /\ p < cycle
    /\ (pc = "r_sleep" /\ (ok1 \/ ok2)) => cycle \in acc_cycles

\* C5: at a rollover no RATIO record is printed for a channel that has no
\* accepted sample in the low phase or none in the high phase, and the
\* accumulators are cleared whether or not records are printed.
C5_NoRatioForChannelWithEmptyPhase ==
    [][ /\ \A c \in Channels :
              (\E r \in Range(Printed) : r.type = "RATIO" /\ r.addr = Addr(c))
                  => (n_low[c] # 0 /\ n_high[c] # 0)
        /\ (pc = "r_rollover" /\ cycle # last_cycle)
              => (/\ low1' = 0 /\ high1' = 0 /\ low2' = 0 /\ high2' = 0
                  /\ lowc' = 0 /\ highc' = 0)
      ]_vars

\* C6: the ratio printed for a channel that has samples in both phases equals
\* (sum of its high-phase samples / its high count) / (sum of its low-phase
\* samples / its low count); so when all its low samples are L and all its
\* high samples are H it is exactly H/L.
C6_RatioIsQuotientOfChannelMeans ==
    [][ \A c \in Channels :
          \A r \in Range(Printed) :
              (/\ r.type = "RATIO" /\ r.addr = Addr(c)
               /\ n_low[c] # 0 /\ n_high[c] # 0) =>
                  /\ RatEq(r.value,
                           Ratio(HighSum(c), n_high[c], LowSum(c), n_low[c]))
                  /\ \A L \in GasValues, H \in GasValues :
                        (LowSum(c) = L * n_low[c] /\ HighSum(c) = H * n_high[c])
                            => r.value.num * L = r.value.den * H
      ]_vars

(***************************************************************************)
(* Warmup                                                                  *)
(***************************************************************************)

\* C7: no feature record is printed for any of the first W completed cycles;
\* the first record printed belongs to completed cycle W + 1.  Stated here
\* for the FEATURE_CYCLE records of the hysteresis loop.
C7_NoFeatureRecordDuringWarmup ==
    \A k \in 1..Len(out) :
        out[k].type = "FEATURE_CYCLE" => out[k].cycle_id > Hyst_WARMUP_CYCLES

\* C8: in a sweep segment no per-tick sample record is printed by a tick whose
\* segment-local elapsed time is below WARMUP_CYCLES * period.
C8_NoSampleRecordDuringSegmentWarmup ==
    [][ (\E r \in Range(Printed) : r.type = "SAMPLE")
            => (now - seg_start >= Sweep_WARMUP_CYCLES * PeriodMs(seg))
      ]_vars

(***************************************************************************)
(* Sweep framing                                                           *)
(***************************************************************************)
IsFrame(r) == r.type \in {"SWEEP", "ENDSWEEP"}

Frames == SelectSeq(out, IsFrame)

\* Number of records of type ty among the first p records of stdout.
CountBefore(ty, p) == Cardinality({k \in 1..p : out[k].type = ty})

\* C9: stdout holds one SWEEP and one ENDSWEEP per list entry, in list order,
\* each SWEEP followed by the ENDSWEEP of the same half-period before the next
\* SWEEP; every sample record lies between a SWEEP and its ENDSWEEP.
C9_SweepFraming ==
    /\ Len(Frames) <= 2 * Len(half_list_ms)
    /\ \A k \in 1..Len(Frames) :
          /\ Frames[k].type = (IF k % 2 = 1 THEN "SWEEP" ELSE "ENDSWEEP")
          /\ Frames[k].half_ms = half_list_ms[(k + 1) \div 2]
    /\ pc = "done" => Len(Frames) = 2 * Len(half_list_ms)
    /\ \A p \in 1..Len(out) :
          out[p].type = "SAMPLE" =>
              CountBefore("SWEEP", p) = CountBefore("ENDSWEEP", p) + 1

\* The sweep has run to its end and every segment printed sample records.
C9_SweepCompletedWithSamples ==
    /\ pc = "done"
    /\ \A k \in 1..Len(half_list_ms) :
          \E p \in 1..Len(out) :
              /\ out[p].type = "SAMPLE"
              /\ CountBefore("SWEEP", p) = k

(***************************************************************************)
(* Sample failures                                                         *)
(***************************************************************************)

\* C10: a failed measurement never ends an acquisition loop: after a failed
\* sample the loop is still running and goes on to its next tick.  Stated
\* here for the hysteresis loop.
C10_SampleFailureKeepsLoopRunning ==
    rslt # OK => pc \notin {"h_out", "done"}

(***************************************************************************)
(* Hold-last policy of the spectral window loop                            *)
(***************************************************************************)
WindowOf(c) == IF c = 1 THEN x1 ELSE x2

FailedIn(c) == IF c = 1 THEN ~ok1 ELSE ~ok2

\* C11: whenever a channel's sample fails at a tick that has a preceding tick,
\* the value stored into the channel's window for the tick is the value
\* stored for that channel at the preceding tick, index 0 of a new window
\* included.  (At the very first tick of a run there is no stored value to
\* hold; the zero the window was initialised with is stored then.)
C11_FailedSampleHoldsPreviousTick ==
    [][ (pc = "f_loop" /\ ticks' = ticks + 1 /\ ticks > 0) =>
            \A c \in Channels :
                FailedIn(c)' => WindowOf(c)'[idx] = last_stored[c][1]
      ]_vars

(***************************************************************************)
(* Initialisation failures                                                 *)
(***************************************************************************)

\* C12: if interface init, sensor init or configuration fails for a sensor,
\* the run is aborted before the first tick: nothing is printed, no
\* measurement is triggered (the loop is never entered), and the process
\* returns a non-zero status.  Stated here for the ratio program.
C12_InitFailureAbortsBeforeFirstTick ==
    init_failed => (out = <<>> /\ pc = "done" /\ rslt # OK)

(***************************************************************************)
(* Teardown of the bus interface                                           *)
(***************************************************************************)

\* C13: the deinit calls of the failure path free only contexts that a
\* successful bme69x_interface_init allocated: when interface init failed
\* before a context was attached to the handle, deinit on that handle frees
\* nothing; no pointer is freed twice.
C13_DeinitFreesOnlyAllocatedContexts ==
    \A k \in 1..Len(freed) :
        /\ freed[k] \in 1..Len(ctx_of)
        /\ \A j \in 1..(k - 1) : freed[j] # freed[k]

\* C14: when a run has ended, the bus descriptor opened by
\* bme69x_interface_init has been released exactly once.
C14_BusReleasedOnceAtExit ==
    (pc = "done" /\ opens > 0) => closes = 1

\* The step is a bme69x_interface_deinit call on handle h, a handle that a
\* bme69x_interface_init call has initialised.
DeinitCalledOn(h) ==
    /\ deinits[h] # <<>>
    /\ deinits'[h] = << deinits[h][1] + 1 >>

\* C15: on an initialised handle, one bme69x_interface_deinit call frees the
\* handle's context and leaves its pointer null; every further call changes
\* no state of the interface and frees nothing.
C15_DeinitIdempotent ==
    [][ \A h \in Handles :
          DeinitCalledOn(h) =>
              /\ intf_ptr'[h] = NULL
              /\ IF deinits[h][1] = 0
                 THEN /\ intf_ptr[h] \in heap
                      /\ freed' = Append(freed, intf_ptr[h])
                      /\ heap' = heap \ {intf_ptr[h]}
                 ELSE UNCHANGED <<shared_fd, intf_ptr, heap, ctx_of, opens,
                                  closes, freed>>
      ]_vars

\* A handle was initialised and has been deinitialised three times in a row.
C15_RepeatedDeinitReached ==
    \E h \in Handles :
        /\ deinits[h] = <<3>>
        /\ Len(freed) = 1
        /\ freed[1] \in 1..Len(ctx_of)

(***************************************************************************)
(* Peak extractor                                                          *)
(***************************************************************************)
\* The bin a returned peak's frequency stands for: f = k * fs / N.
BinOf(p) ==
    CHOOSE k \in 0..WindowLenOf(bins) :
        p.f.num * FS_HZ.den * WindowLenOf(bins) = k * FS_HZ.num * p.f.den

\* Number of non-DC bins that come before bin k when the bins are sorted by
\* magnitude descending, ties by lower index first.
RankOf(k) ==
    Cardinality({j \in 1..(bins - 1) :
                    mags[j] > mags[k] \/ (mags[j] = mags[k] /\ j < k)})

\* C16: none of the three returned frequencies is that of bin 0, whatever the
\* magnitudes and the bin count, mags[0] dominating included.
C16_PeaksNeverReportBinZero ==
    pc = "p_done" => \A s \in 1..3 : BinOf(peaks[s]) >= 1

\* The extractor has run on an array whose DC magnitude exceeds every other.
C16_DominantDcReached ==
    /\ pc = "p_done"
    /\ bins >= 4
    /\ \A k \in 1..(bins - 1) : mags[0] > mags[k]

\* C17: with at least three non-DC bins the three returned (bin, magnitude)
\* pairs are the first three of bins 1..bins-1 sorted by magnitude
\* descending, ties by lower bin first; the bins are pairwise distinct and
\* m1 >= m2 >= m3.
C17_PeaksAreTopThreeSorted ==
    (pc = "p_done" /\ bins >= 4) =>
        /\ \A s \in 1..3 :
              /\ BinOf(peaks[s]) \in 1..(bins - 1)
              /\ RankOf(BinOf(peaks[s])) = s - 1
              /\ peaks[s].m = mags[BinOf(peaks[s])]
        /\ Cardinality({BinOf(peaks[s]) : s \in 1..3}) = 3
        /\ peaks[1].m >= peaks[2].m /\ peaks[2].m >= peaks[3].m

\* The extractor has run on an array with ties among its largest magnitudes
\* and a smaller magnitude at a lower bin.
C17_TiedPeaksReached ==
    /\ pc = "p_done"
    /\ bins = 5
    /\ mags[1] < mags[2] /\ mags[2] = mags[4] /\ mags[3] < mags[2]
    /\ BinOf(peaks[1]) = 2 /\ BinOf(peaks[2]) = 4

\* C18: with fewer than three non-DC bins (bins <= 3) every slot that has no
\* peak is returned with magnitude -1 and with a non-DC bin that is not
\* already reported as a peak; the slots that have a peak carry non-negative
\* magnitudes.
C18_MissingPeakSlotsUseRemainingBin ==
    (pc = "p_done" /\ bins <= 3) =>
        /\ \A s \in 1..(bins - 1) : peaks[s].m >= 0
        /\ \A s \in bins..3 :
              /\ peaks[s].m = -1
              /\ BinOf(peaks[s]) >= 1
              /\ \A q \in 1..(bins - 1) : BinOf(peaks[s]) # BinOf(peaks[q])

(***************************************************************************)
(* Hysteresis and symmetric-profile emitters                               *)
(***************************************************************************)
FeatureCycleCount ==
    Cardinality({k \in 1..Len(out) : out[k].type = "FEATURE_CYCLE"})

\* C19: each completed cycle emits one vector, of exactly S entries, with
\* y[i] = high[i] - low[i] where low[i] and high[i] are the i-th readings of
\* that cycle's low and high phases; the vector is all zeros when
\* low[i] = high[i] for every i.
C19_CycleVectorIsHighMinusLow ==
    /\ FeatureCycleCount = cycle_id
    /\ pc = "h_push" =>
          LET y == out[Len(out)].y
          IN  /\ out[Len(out)].type = "FEATURE_CYCLE"
              /\ Len(cyc_samples) = 2 * S
              /\ DOMAIN y = 0..(S - 1)
              /\ \A j \in 0..(S - 1) :
                    y[j] = cyc_samples[S + j + 1] - cyc_samples[j + 1]
              /\ (\A j \in 0..(S - 1) : cyc_samples[S + j + 1] = cyc_samples[j + 1])
                    => y = Zeros(S)

\* A second cycle has been emitted with a positive and a zero difference, its
\* low readings differing from those of the cycle before.
C19_MixedCycleVectorReached ==
    /\ pc = "h_push"
    /\ cycle_id = 2
    /\ out[Len(out)].y[0] > 0
    /\ out[Len(out)].y[S - 1] = 0
    /\ out[1].y[0] < 0

\* The window read backwards.
Reversed(w, n) == [j \in 0..(n - 1) |-> w[n - 1 - j]]

ConstantWindow == \A n \in 0..(dft_N - 1) : dft_x[n] = dft_x[0]

\* C21: for a window whose samples are all equal, every non-DC magnitude
\* (bins 1..N/2) is zero in the output of both routines, and so is the DC
\* bin where it is reported (by dft_mags_dc_removed).
C21_ConstantWindowHasZeroSpectrum ==
    (pc = "d_done" /\ ConstantWindow) =>
        /\ \A k \in 0..(dft_N \div 2) : mags[k] = 0
        /\ \A k \in 0..(dft_N \div 2) : out[1].mags[k] = 0
        /\ \A k \in 1..(dft_N \div 2) : out[2].mags[k] = 0

C21_ConstantNonZeroWindowReached ==
    /\ pc = "d_done"
    /\ ConstantWindow
    /\ dft_N = 6
    /\ dft_x[0] = MaxDftValue
    /\ DOMAIN out[1].mags = 0..3
    /\ DOMAIN out[2].mags = 1..3

\* C22: every spectrum computed from a window of N samples has exactly
\* N/2 + 1 magnitudes, for the bins 0..N/2, in both routines, and every FFT
\* record carries that many magnitude fields.
C22_SpectrumHasHalfPlusOneBins ==
    pc = "d_done" =>
        /\ DOMAIN mags = 0..(dft_N \div 2)
        /\ DOMAIN out[1].mags = 0..(dft_N \div 2)
        /\ Cardinality(DOMAIN out[2].mags) = dft_N \div 2 + 1

\* The window is c + a*cos(th) + b*sin(th) with th = 2*pi*k0*n/N, and is not
\* constant: a sinusoid on bin k0.  For an integer-valued window a and
\* b*sqrt(3) (N = 3, 6) or a and b (N = 2, 4) are whole numbers of halves,
\* A and B below, and c = x[0] - a.
PureTone(x, N, k0) ==
    /\ \E n \in 0..(N - 1) : x[n] # x[0]
    /\ \E A \in (-MaxDftValue)..MaxDftValue, B \in (-MaxDftValue)..MaxDftValue :
          \A n \in 0..(N - 1) :
              LET u == Twelfths(k0, n, N)
              IN  2 * x[n] = 2 * x[0] - 2 * A + A * Cos2[u]
                             + B * (SinR3[u] + 2 * SinInt[u])

\* The bin whose frequency a peak of the window reports.
DftBinOf(p) ==
    CHOOSE k \in 0..dft_N :
        p.f.num * FS_HZ.den * dft_N = k * FS_HZ.num * p.f.den

\* C26: for a window holding a sinusoid on an integer bin k0, 1 <= k0 <= N/2,
\* the first peak of top3_peaks is bin k0, and the magnitude of bin k0 is
\* strictly greater than that of every other non-DC bin.
C26_PureToneIsFirstPeak ==
    pc = "d_done" =>
        \A k0 \in 1..(dft_N \div 2) :
            PureTone(dft_x, dft_N, k0) =>
                /\ DftBinOf(peaks[1]) = k0
                /\ peaks[1].m = mags[k0]
                /\ \A k \in 1..(dft_N \div 2) : k # k0 => mags[k0] > mags[k]

C26_MidBinToneReached ==
    /\ pc = "d_done"
    /\ dft_N = 6
    /\ PureTone(dft_x, dft_N, 2)
    /\ DftBinOf(peaks[1]) = 2
    /\ mags[0] = 0

(***************************************************************************)
(* Gate of the hysteresis spectrum                                         *)
(***************************************************************************)
FftRecordCount ==
    Cardinality({k \in 1..Len(out) : out[k].type = "FFT"})

\* The N values pushed last when cycle c was complete, oldest first (every
\* complete cycle pushes S values).
PushesUpTo(c) ==
    [j \in 0..(Hyst_FFT_N - 1) |-> pushed[c * S - Hyst_FFT_N + j + 1]]

\* C29: an FFT record of the hysteresis loop is produced only from a fully
\* populated rolling window (at least FFT_N values had been pushed, and the
\* spectrum is that of the FFT_N values pushed last), and only for a cycle id
\* above WARMUP_CYCLES that is a multiple of FFT_STRIDE.
C29_FftOnlyFromFullWindowOnStride ==
    \A k \in 1..Len(out) :
        out[k].type = "FFT" =>
            LET c == out[k].cycle_id
            IN  /\ c > Hyst_WARMUP_CYCLES
                /\ c % FFT_STRIDE = 0
                /\ c * S >= Hyst_FFT_N
                /\ c * S <= Len(pushed)
                /\ out[k] = dft_print(c, PushesUpTo(c), Hyst_FFT_N, Hyst_Fs)

\* A spectrum has been printed, for a cycle later than the first one that is
\* past the warmup and on the stride: that one came before the window was
\* full.
C29_FirstStrideCycleSkipped ==
    /\ FftRecordCount = 1
    /\ out[Len(out)].type = "FFT"
    /\ out[Len(out)].cycle_id > FFT_STRIDE
    /\ FFT_STRIDE > Hyst_WARMUP_CYCLES
    /\ FFT_STRIDE < FFT_CYCLES
    /\ \E q \in DOMAIN out[Len(out)].mags : out[Len(out)].mags[q] > 0

(***************************************************************************)
(* Bus transactions within a tick                                          *)
(***************************************************************************)
\* C23: within a tick of the dual-channel loop the set-point is evaluated
\* once; the transaction of 0x76 (arm, trigger, wait, read) is over before
\* that of 0x77 begins; both sensors are armed with the set-point of the
\* tick; at no time are two bus transactions in flight.
C23_ChannelsSampledInTurnUnderOneSetPoint ==
    pc \in {"k_sample1", "k_sample2", "k_finish"} =>
        /\ evals = 1
        /\ Cardinality({c \in Channels : InFlight(c)}) <= 1
        /\ stage[2] # "idle" => stage[1] \in {"done", "failed"}
        /\ pc = "k_sample1" => stage[2] = "idle"
        /\ \A c \in Channels : stage[c] \notin {"idle", "failed"} =>
               armed[c] = heater
        /\ \A c \in Channels : armed[c] # 0 => armed[c] = heater

\* Both sensors have been sampled with the set-point of the tick although the
\* clock has passed into the other half period while 0x76 was measured.
C23_PhaseBoundaryCrossedInTick ==
    /\ pc = "k_finish"
    /\ stage = [c \in Channels |-> "done"]
    /\ armed = [c \in Channels |-> Fft_T_LOW_C]
    /\ (now - t0) % T_SW_MS >= T_HALF_MS

(***************************************************************************)
(* Retries                                                                 *)
(***************************************************************************)
\* C24: there is no retry: a heater step whose sample failed (driver error or
\* zero valid fields) is not measured again; the sample index moves on, so
\* that every measurement issued is the first one for its value of the
\* index.
C24_NoStepMeasuredTwice == [][ticks' # ticks => attempts = 0]_vars

(***************************************************************************)
(* Progress of the sweep                                                   *)
(***************************************************************************)
\* C25: in a sweep run no sample failure ends a segment early or ends the
\* run: a tick, whatever its samples yield, stays in its segment; segment i
\* ends only when its segment-local elapsed time has reached
\* (WARMUP_CYCLES + CYCLES_PER_FREQ) * period_i, and the run then moves to
\* entry i + 1; the run eventually reaches the end of the list and is done.
C25_SweepRunsEverySegmentToItsEnd ==
    /\ [][/\ ticks' # ticks =>
                /\ pc' = "s_loop" /\ seg' = seg /\ seg_start' = seg_start
          /\ seg' # seg =>
                /\ now - seg_start >=
                       (Sweep_WARMUP_CYCLES + CYCLES_PER_FREQ)
                           * (2 * half_list_ms[seg])
                /\ seg' = seg + 1
          /\ pc' = "done" => seg > Len(half_list_ms)]_vars
    /\ <>(pc = "done")

\* The run is done although every sample of it failed: the output holds the
\* frames of every segment and no sample record.
C25_DoneWithEverySampleFailed ==
    /\ pc = "done"
    /\ ticks >= Len(half_list_ms)
    /\ \A k \in 1..Len(out) : out[k].type # "SAMPLE"
    /\ Cardinality({k \in 1..Len(out) : out[k].type = "ENDSWEEP"})
           = Len(half_list_ms)

(***************************************************************************)
(* Waiting for the deadline                                                *)
(***************************************************************************)
\* C27: sleep_until_ms(target) returns only when the clock has reached the
\* target, and without sleeping when it already had; so no tick starts before
\* its deadline (tick n, counted from 0, not before run start + n * TS_MS),
\* and after an overrun the next tick follows at once: every wait advances
\* the deadline by one interval and starts the next tick, none is skipped.
C27_TickNeverStartsBeforeDeadline ==
    /\ [][pc = "r_sleep" =>
             /\ next' = next + Ratio_TS_MS
             /\ now' >= next'
             /\ now >= next' => now' = now
             /\ ticks' = ticks + 1
             /\ pc' = "r_sample"]_vars
    /\ [](pc = "r_sample" => now >= run_start + ticks * Ratio_TS_MS)

\* A tick has overrun: the wait is entered with the clock already past the
\* deadline it is about to wait for.
C27_OverrunReached ==
    /\ pc = "r_sleep"
    /\ ticks >= 1
    /\ now > next + Ratio_TS_MS

C30_RecordPerSuccessfulChannel ==
    [][ticks' # ticks =>
          LET n == Len(Printed)
          IN  IF sample' <= WARMUP_SAMPLES
              THEN n = 0
              ELSE /\ n = (IF ok1' THEN 1 ELSE 0) + (IF ok2' THEN 1 ELSE 0)
                   /\ ok1' => /\ Printed[1].addr = ADDR1
                              /\ Printed[1].gas = g1'
                   /\ ok2' => /\ Printed[n].addr = ADDR2
                              /\ Printed[n].gas = g2'
                   /\ \A k \in 1..n :
                         /\ Printed[k].type = "RAW"
                         /\ Printed[k].t = Printed[1].t
                         /\ Printed[k].t >= now - t0
                         /\ Printed[k].t <= now' - t0]_vars

\* The first tick after the warmup failed on 0x76 and succeeded on 0x77: the
\* output holds the header and the record of 0x77.
C30_OnlySecondChannelPrinted ==
    /\ pc = "g_loop"
    /\ sample = WARMUP_SAMPLES + 1
    /\ ~ok1 /\ ok2
    /\ Len(out) = 2
    /\ out[2].addr = ADDR2 /\ out[2].gas = g2

\* Records of type ty on stdout.
RecordCount(ty) == Cardinality({k \in 1..Len(out) : out[k].type = ty})

\* The index discipline of forced_2_fft between two ticks: idx is a slot of
\* the two windows; every tick has stored once, window_id windows of FFT_N
\* stores have been closed and idx stores have gone into the open one; the
\* closed windows past the warmup, and no others, have been analysed (one FFT
\* and one PEAK record per channel).
FftWindowDiscipline ==
    /\ idx \in 0..(Fft_FFT_N - 1)
    /\ DOMAIN x1 = 0..(Fft_FFT_N - 1) /\ DOMAIN x2 = 0..(Fft_FFT_N - 1)
    /\ ticks = window_id * Fft_FFT_N + idx
    /\ RecordCount("FFT") = 2 * Max(0, window_id - WARMUP_WINDOWS)
    /\ RecordCount("PEAK") = 2 * Max(0, window_id - WARMUP_WINDOWS)

\* The same for the stepped-profile loop: sample_count - 1 samples have been
\* accepted and stored, cycle_id windows of profile_len stores closed.
ProfileWindowDiscipline ==
    /\ cycle_index \in 0..(profile_len - 1)
    /\ DOMAIN gas_cycle = 0..(profile_len - 1)
    /\ sample_count - 1 = cycle_id * profile_len + cycle_index
    /\ RecordCount("STEP") = sample_count - 1
    /\ RecordCount("FEATURE_VEC") = Max(0, cycle_id - Prof_WARMUP_CYCLES)

\* A tick of forced_2_fft writes slot idx of each window and no other slot,
\* then moves idx on by one, back to 0 from the last slot, where the window
\* is closed.
FftStoreAtIndex ==
    (pc = "f_loop" /\ ticks' # ticks) =>
        /\ x1'[idx] = last_stored'[1][1] /\ x2'[idx] = last_stored'[2][1]
        /\ \A j \in 0..(Fft_FFT_N - 1) :
              j # idx => x1'[j] = x1[j] /\ x2'[j] = x2[j]
        /\ idx' = (IF idx = Fft_FFT_N - 1 THEN 0 ELSE idx + 1)
        /\ window_id' = (IF idx = Fft_FFT_N - 1 THEN window_id + 1
                                                ELSE window_id)
        /\ Len(out') > Len(out) => idx = Fft_FFT_N - 1

\* An accepted sample of the profile loop is written to slot cycle_index and
\* no other slot; a pass that accepts nothing stores nothing.
ProfileStoreAtIndex ==
    /\ (profile_len # 0 /\ sample_count' # sample_count) =>
        /\ gas_cycle'[cycle_index] = out'[Len(out) + 1].gas
        /\ \A j \in 0..(profile_len - 1) :
              j # cycle_index => gas_cycle'[j] = gas_cycle[j]
        /\ cycle_index' = (IF cycle_index = profile_len - 1 THEN 0
                                                           ELSE cycle_index + 1)
        /\ cycle_id' = (IF cycle_index = profile_len - 1 THEN cycle_id + 1
                                                        ELSE cycle_id)
        /\ Len(out') > Len(out) + 1 => cycle_index = profile_len - 1
    /\ (profile_len # 0 /\ sample_count' = sample_count) =>
        UNCHANGED <<gas_cycle, cycle_index, cycle_id, out>>

\* C31: in the window loop of forced_2_fft and in the stepped-profile loop
\* the write index is within 0..N-1 at every store and the store changes that
\* slot only; a window is closed exactly when N values have been stored since
\* the index was last 0, the index is 0 again right after, and the analysis
\* records (FFT and PEAK, FEATURE_VEC) are printed at the closing stores and
\* nowhere else, one set per closed window past the warmup.
C31_SingleShotWindowBounds ==
    /\ [](pc = "f_loop" => FftWindowDiscipline)
    /\ [](profile_len # 0 => ProfileWindowDiscipline)
    /\ [][FftStoreAtIndex /\ ProfileStoreAtIndex]_vars

\* A window of forced_2_fft past the warmup has been filled by FFT_N stores,
\* one of them a held value, analysed, and the index is back at 0.
C31_AnalysedWindowRestarted ==
    /\ pc = "f_loop" /\ idx = 0 /\ window_id > WARMUP_WINDOWS
    /\ RecordCount("FFT") = 2
    /\ ~ok1

\* The raw line printed for accepted sample n (samples are numbered from 1).
StepRecordOf(n) ==
    CHOOSE r \in Range(out) : r.type = "STEP" /\ r.sample = n

\* The sample that slot j of gas_cycle holds: the one stored there in the
\* open cycle, or in the cycle closed last when the open one has not come to
\* the slot yet; 0 when the slot has never been written.
SampleInSlot(j) ==
    IF j < cycle_index THEN cycle_id * profile_len + j + 1
    ELSE IF cycle_id > 0 THEN (cycle_id - 1) * profile_len + j + 1
    ELSE 0

\* Every slot written so far holds the resistance of a sample printed with
\* the set-point of the slot's place in the profile.
SlotsHoldTheirStep ==
    \A j \in 0..(profile_len - 1) :
        SampleInSlot(j) # 0 =>
            /\ StepRecordOf(SampleInSlot(j)).gas = gas_cycle[j]
            /\ StepRecordOf(SampleInSlot(j)).step_temp = profile[j + 1]

\* Entry j of every feature vector printed is the sample of its cycle taken
\* at profile[N-1-j] minus the one taken at profile[j].
FeatureVecsCompareMirroredSteps ==
    \A k \in 1..Len(out) :
        out[k].type = "FEATURE_VEC" =>
            \A j \in 0..((profile_len \div 2) - 1) :
                LET base == (out[k].cycle_id - 1) * profile_len
                    up   == StepRecordOf(base + j + 1)
                    down == StepRecordOf(base + profile_len - j)
                IN  /\ up.step_temp = profile[j + 1]
                    /\ down.step_temp = profile[profile_len - j]
                    /\ out[k].diff[j] = down.gas - up.gas

\* A pass that accepts a sample has measured it with the heater at
\* profile[cycle_index] and stores it in slot cycle_index; a pass that
\* accepts nothing leaves both indices alone.
StoreUnderSlotSetPoint ==
    /\ sample_count' # sample_count =>
          /\ heater' = profile[cycle_index + 1]
          /\ out'[Len(out) + 1].step_temp = heater'
          /\ out'[Len(out) + 1].sample = sample_count
          /\ gas_cycle'[cycle_index] = out'[Len(out) + 1].gas
    /\ (ticks' # ticks /\ sample_count' = sample_count /\ pc' = "q_loop") =>
          /\ cycle_index' = cycle_index
          /\ heater' = profile[cycle_index + 1]

\* C32: in the stepped-profile loop the slot written, cycle_index, equals
\* (sample_count - 1) mod profile_len at every store, reads with zero valid
\* fields included: gas_cycle[i] holds a sample measured at profile[i], and
\* entry i of each FEATURE_VEC compares the samples taken at profile[i] and
\* at profile[N-1-i].
C32_SlotMatchesProfileStep ==
    /\ [](profile_len # 0 =>
             /\ cycle_index = (sample_count - 1) % profile_len
             /\ SlotsHoldTheirStep
             /\ FeatureVecsCompareMirroredSteps)
    /\ [][profile_len # 0 => StoreUnderSlotSetPoint]_vars

\* A feature vector with a non-zero entry has been printed in a run where a
\* read had returned zero valid fields.
C32_FeatureVecAfterEmptyRead ==
    /\ profile_len # 0
    /\ ticks > sample_count - 1
    /\ rslt = OK
    /\ \E k \in 1..Len(out) :
          out[k].type = "FEATURE_VEC" /\ out[k].diff[0] # 0

\* C33: the stepped-profile run terminates, whatever the measurements yield,
\* an unbounded run of reads with zero valid fields included: the loop is left
\* at the first driver error, or else after exactly SAMPLE_COUNT accepted
\* samples, and main returns.
C33_ProfileRunTerminates ==
    /\ []((profile_len # 0 /\ pc = "done") =>
             \/ rslt = FAIL
             \/ sample_count = SAMPLE_COUNT + 1
                /\ RecordCount("STEP") = SAMPLE_COUNT)
    /\ [][(profile_len # 0 /\ rslt' = FAIL) => pc' # "q_loop"]_vars
    /\ <>(pc = "done")

\* Between two calls of the interface: the bus has been opened at most once
\* (nothing closes it), shared_fd is negative until that open has succeeded,
\* and every context created so far, freed or not, holds the value of
\* shared_fd; none exists while shared_fd is negative.
OneBusDescriptor ==
    /\ opens - closes \in {0, 1}
    /\ shared_fd < 0 <=> opens = 0
    /\ shared_fd >= 0 => shared_fd = BUS_FD
    /\ \A k \in 1..Len(ctx_of) : ctx_of[k].fd = shared_fd
    /\ shared_fd < 0 => ctx_of = <<>>

\* A call opens the bus only when shared_fd is negative; a call that leaves
\* shared_fd negative has created no context and returned an error; a
\* context is created with the descriptor shared_fd holds after the call.
OpenOnlyWhenUnset ==
    /\ opens' # opens => shared_fd < 0 /\ shared_fd' >= 0 /\ opens' = opens + 1
    /\ shared_fd' # shared_fd => opens' = opens + 1
    /\ (shared_fd' < 0 /\ rslt' # rslt) => rslt' = FAIL /\ ctx_of' = ctx_of
    /\ ctx_of' # ctx_of =>
          /\ Len(ctx_of') = Len(ctx_of) + 1
          /\ ctx_of'[Len(ctx_of')].fd = shared_fd'
          /\ shared_fd' >= 0
          /\ \A k \in 1..Len(ctx_of) : ctx_of'[k] = ctx_of[k]

\* While shared_fd is negative the next bme69x_interface_init call tries the
\* open again: it can succeed and open the bus.
OpenTriedAgain ==
    (pc = "api" /\ shared_fd < 0 /\ ticks < MaxIntfCalls) =>
        ENABLED (CallInterfaceInit /\ opens' = opens + 1 /\ rslt' = OK)

\* C34: after any sequence of bme69x_interface_init calls the bus device has
\* been opened at most once and every context created so far holds the
\* descriptor value of shared_fd; a failed open leaves shared_fd negative and
\* creates no context, and a later call attempts the open again.
C34_BusOpenedOnceAndShared ==
    /\ [](pc = "api" => OneBusDescriptor /\ OpenTriedAgain)
    /\ [][pc = "api" => OpenOnlyWhenUnset]_vars

\* Four calls have created three contexts, two of them for the same handle,
\* on one open of the bus; nothing has been freed.
C34_ThreeContextsOnOneOpen ==
    /\ pc = "api"
    /\ opens = 1 /\ Len(ctx_of) = 3
    /\ ticks = 4 /\ freed = <<>>
    /\ \A h \in Handles : deinits[h] = <<0>>

(***************************************************************************)
(* The repository: any one of the programs is run                          *)
(***************************************************************************)
Init == InitRatio \/ InitHyst \/ InitSweep \/ InitFft \/ InitIntf \/ InitRaw
        \/ InitPeaks \/ InitFeat \/ InitDft \/ InitSteps \/ InitProfile

Next == NextRatio \/ NextHyst \/ NextSweep \/ NextFft \/ NextIntf \/ NextRaw
        \/ NextPeaks \/ NextFeat \/ NextDft \/ NextSteps \/ NextProfile

Spec == Init /\ [][Next]_vars

====
